---- MODULE Spec2Model ----
(***************************************************************************)
(* Attention-inference pipeline of the online student attentive system.    *)
(*                                                                         *)
(*   AudioProcessor            src/audio_processor.py                      *)
(*   AdvancedAttentionDetector src/advanced_attention_detector.py          *)
(*                                                                         *)
(* Fixed-point conventions (the source uses Python floats):                *)
(*   - audio sample amplitudes: 1/32768 of full scale (FullScale);         *)
(*   - audio levels (combined_level, noise_level, thresholds): 1/327680    *)
(*     of full scale (LevelScale), so 0.7*rms + 0.3*peak is 7*rms+3*peak;  *)
(*   - eye aspect ratios: thousandths (0.25 is 250);                       *)
(*   - mouth aspect ratios: thousandths (0.6 is 600);                      *)
(*   - angles: tenths of a degree (25 degrees is 250);                     *)
(*   - blink rate: thirtieths (recent_blinks / 30.0 is recent_blinks);     *)
(*   - attention score: points (50.0 is 50).                               *)
(* The cascade classifiers, the image statistics and the web layer are     *)
(* external: a frame is modelled by what the cascades report for it.       *)
(***************************************************************************)
EXTENDS Integers, Sequences, FiniteSets, TLC

VARIABLES
    audio_history,             \* AudioProcessor.audio_history
    voice_frames,              \* AudioProcessor.voice_frames
    silence_frames,            \* AudioProcessor.silence_frames
    blink_history,             \* deque(maxlen=30) of 0/1 flags
    eye_aspect_ratio_history,  \* deque(maxlen=30) of avg_ear samples
    head_pose_history,         \* deque(maxlen=60) of poses
    mouth_history,             \* deque(maxlen=30) of mar samples
    emotion_history,           \* deque(maxlen=90) of emotion labels
    enhanced,                  \* the windows of an EnhancedEmotionDetector
    threads,                   \* server threads inside process_audio_data
    args,                      \* arguments of the call in progress / last call
    ret,                       \* value returned by the last call
    pc                         \* "ready" before a call, "done" after it

vars == <<audio_history, voice_frames, silence_frames, blink_history,
          eye_aspect_ratio_history, head_pose_history, mouth_history,
          emotion_history, enhanced, threads, args, ret, pc>>

audioVars == <<audio_history, voice_frames, silence_frames>>

detectorVars == <<blink_history, eye_aspect_ratio_history, head_pose_history,
                  mouth_history, emotion_history>>

NoCall == [op |-> "none"]

\* ------------------------------------------------------------------------
\* Bounds of the exploration
\* ------------------------------------------------------------------------
MaxChunks == 7

MaxBlinkCalls == 7

MaxYawnCalls == 11

MaxFrames == 4

MaxSessionChunks == 3

MaxSessionFrames == 2

MaxAbsentFrames == 45

MaxNeutralFrames == 8

MaxOtherFrames == 2

MaxLeftFrames == 11

\* requests served by one server thread
MaxThreadCalls == 2

\* samples of a chunk whose level is compared with that of its multiple
MaxLevelLen == 2

\* ------------------------------------------------------------------------
\* Generic helpers
\* ------------------------------------------------------------------------
Abs(x) == IF x < 0 THEN -x ELSE x

Min(a, b) == IF a < b THEN a ELSE b

Max(a, b) == IF a > b THEN a ELSE b

RECURSIVE SumSeq(_)
SumSeq(s) == IF s = <<>> THEN 0 ELSE Head(s) + SumSeq(Tail(s))

RECURSIVE MaxSeq(_)
MaxSeq(s) == IF Len(s) = 1 THEN s[1] ELSE Max(Head(s), MaxSeq(Tail(s)))

RECURSIVE MinSeq(_)
MinSeq(s) == IF Len(s) = 1 THEN s[1] ELSE Min(Head(s), MinSeq(Tail(s)))

\* the last n elements of s (Python s[-n:]): all of s when it is shorter
LastN(s, n) == IF Len(s) <= n THEN s ELSE SubSeq(s, Len(s) - n + 1, Len(s))

\* a faulty DequeAppend: a full window refuses the new sample
DequeAppendKeepOldest(s, x, cap) == IF Len(s) < cap THEN Append(s, x) ELSE s

\* deque(maxlen=cap).append(x): the oldest sample is evicted when full
DequeAppend(s, x, cap) == LastN(Append(s, x), cap)

\* floor of the square root, by bisection on lo..hi
RECURSIVE ISqrtIn(_, _, _)
ISqrtIn(n, lo, hi) ==
    IF lo >= hi THEN lo
    ELSE LET mid == (lo + hi + 1) \div 2
         IN  IF mid * mid <= n THEN ISqrtIn(n, mid, hi)
                               ELSE ISqrtIn(n, lo, mid - 1)

ISqrt(n) == ISqrtIn(n, 0, 32768)

\* ------------------------------------------------------------------------
\* AudioProcessor
\* ------------------------------------------------------------------------
FullScale == 32768

LevelScale == 10 * FullScale

\* 0.005, 0.08 and 0.015 in thousandths; a level l (in 1/LevelScale)
\* exceeds a threshold t exactly when l * 1000 > t * LevelScale
silence_threshold == 5

noise_threshold == 80

voice_threshold == 15

AudioHistoryLen == 30

VoiceConfirmFrames == 2

SilenceResetFrames == 5

\* audio chunks offered to process_audio_chunk: lists of integer samples
Chunks == { <<>>, <<0, 0>>, <<400>>, <<1>>, <<1000, -1000>> }

Squares(chunk) == [i \in 1..Len(chunk) |-> chunk[i] * chunk[i]]

Magnitudes(chunk) == [i \in 1..Len(chunk) |-> Abs(chunk[i])]

\* audio_array.max() > 1.0 or audio_array.min() < -1.0
NeedsNormalize(chunk) == MaxSeq(chunk) > 1 \/ MinSeq(chunk) < -1

\* np.sqrt(np.mean(audio_array ** 2)) in 1/FullScale; a chunk that is not
\* divided by 32768 has its samples taken as fractions of full scale as is
Rms(chunk) ==
    IF NeedsNormalize(chunk)
    THEN ISqrt(SumSeq(Squares(chunk)) \div Len(chunk))
    ELSE ISqrt(((FullScale * FullScale) \div Len(chunk)) * SumSeq(Squares(chunk)))

\* np.max(np.abs(audio_array)) in 1/FullScale
Peak(chunk) ==
    IF NeedsNormalize(chunk)
    THEN MaxSeq(Magnitudes(chunk))
    ELSE MaxSeq(Magnitudes(chunk)) * FullScale

\* (rms * 0.7) + (peak * 0.3) in 1/LevelScale
CombinedLevel(chunk) == 7 * Rms(chunk) + 3 * Peak(chunk)

AboveVoice(level) == level * 1000 > voice_threshold * LevelScale

\* min(np.mean(audio_history) * 20.0, 1.0)
NoiseLevel(history) ==
    Min((SumSeq(history) * 20) \div Len(history), LevelScale)

\* a faulty VoiceFramesAfter: any silent chunk resets the active counter
VoiceFramesResetOnSilence(level, vf, sf) ==
    IF AboveVoice(level) THEN vf + 1 ELSE 0

\* self.voice_frames after the chunk
VoiceFramesAfter(level, vf, sf) ==
    IF AboveVoice(level) THEN vf + 1
    ELSE IF sf + 1 >= SilenceResetFrames THEN 0 ELSE vf

\* self.silence_frames after the chunk
SilenceFramesAfter(level, sf) ==
    IF AboveVoice(level) THEN 0 ELSE sf + 1

\* a faulty VoiceActive: once confirmed, the flag stays up on silent chunks
\* until voice_frames is reset
VoiceActiveLatched(level, vf) ==
    \/ AboveVoice(level) /\ vf + 1 >= VoiceConfirmFrames
    \/ ~AboveVoice(level) /\ vf >= VoiceConfirmFrames

\* a faulty VoiceActive: the first above-threshold chunk already confirms
VoiceActiveUnconfirmed(level, vf) ==
    AboveVoice(level) /\ vf + 1 >= 1

\* the voice_active flag returned for the chunk
VoiceActive(level, vf) ==
    AboveVoice(level) /\ vf + 1 >= VoiceConfirmFrames

\* noise_level > self.noise_threshold
is_noisy_environment(noise_level) ==
    noise_level * 1000 > noise_threshold * LevelScale

\* a faulty get_voice_activity_status: the noise test comes before the
\* voice flag
StatusNoisyFirst(voice_active, noise_level) ==
    IF noise_level * 1000 > noise_threshold * LevelScale THEN "Noisy Environment"
    ELSE IF voice_active THEN "Speaking"
    ELSE IF noise_level * 1000 < silence_threshold * LevelScale THEN "Silent"
    ELSE "Background Noise"

get_voice_activity_status(voice_active, noise_level) ==
    IF voice_active THEN "Speaking"
    ELSE IF noise_level * 1000 > noise_threshold * LevelScale THEN "Noisy Environment"
    ELSE IF noise_level * 1000 < silence_threshold * LevelScale THEN "Silent"
    ELSE "Background Noise"

\* the window and the counters after a chunk of combined level `level`
ChunkUpdate(level) ==
    /\ audio_history' = LastN(Append(audio_history, level), AudioHistoryLen)
    /\ voice_frames' = VoiceFramesAfter(level, voice_frames, silence_frames)
    /\ silence_frames' = SilenceFramesAfter(level, silence_frames)

\* a faulty process_audio_chunk: no early return, an empty chunk is processed
\* as a chunk of level 0
ProcessEmptyAsSilence(chunk) ==
    /\ \E level \in {IF Len(chunk) = 0 THEN 0 ELSE CombinedLevel(chunk)} :
           /\ ChunkUpdate(level)
           /\ ret' = [op |-> "process_audio_chunk", processed |-> Len(chunk) # 0,
                      voice_active |-> VoiceActive(level, voice_frames),
                      noise_level |-> NoiseLevel(audio_history'), level |-> level]
    /\ args' = [chunk |-> chunk]
    /\ UNCHANGED <<detectorVars, enhanced, threads, pc>>

\* process_audio_chunk(audio_data); a missing chunk (None) and an empty one
\* take the same early return and are both the empty sequence here
process_audio_chunk(chunk) ==
    /\ IF Len(chunk) = 0
       THEN /\ ret' = [op |-> "process_audio_chunk", processed |-> FALSE,
                       voice_active |-> FALSE, noise_level |-> 0, level |-> 0]
            /\ UNCHANGED audioVars
       ELSE \E level \in {CombinedLevel(chunk)} :
                /\ ChunkUpdate(level)
                /\ ret' = [op |-> "process_audio_chunk", processed |-> TRUE,
                           voice_active |-> VoiceActive(level, voice_frames),
                           noise_level |-> NoiseLevel(audio_history'), level |-> level]
    /\ args' = [chunk |-> chunk]
    /\ UNCHANGED <<detectorVars, enhanced, threads, pc>>

\* get_voice_activity_status(voice_active, noise_level), called on its own
VoiceStatusOf(voice_active, noise_level) ==
    /\ ret' = [op |-> "get_voice_activity_status",
               status |-> get_voice_activity_status(voice_active, noise_level)]
    /\ args' = [voice_active |-> voice_active, noise_level |-> noise_level]
    /\ UNCHANGED <<audioVars, detectorVars, enhanced, threads, pc>>

\* ------------------------------------------------------------------------
\* AdvancedAttentionDetector: constants of __init__
\* ------------------------------------------------------------------------
BlinkHistoryLen == 30

EarHistoryLen == 30

HeadPoseHistoryLen == 60

MouthHistoryLen == 30

EmotionHistoryLen == 90

\* 0.25, in thousandths
EAR_THRESHOLD == 250

EAR_CONSEC_FRAMES == 3

\* 0.5 blinks per second, in thirtieths
BLINK_RATE_THRESHOLD == 15

\* 0.6, in thousandths
YAWN_THRESHOLD == 600

YAWN_CONSEC_FRAMES == 10

\* the cap of the bounding-box aspect ratio, min(..., 0.4)
EarCap == 400

\* the default aspect ratio of an eye that was not measured, 0.3
EarDefault == 300

\* the aspect ratio reported when no eye is found, 0.15
EarClosed == 150

\* a blink rate is reported once this many flags are buffered
BlinkRateMinSamples == 10

None == [none |-> TRUE]

\* ------------------------------------------------------------------------
\* calculate_eye_aspect_ratio: eye_points are six landmarks [x, y] in pixels
\* ------------------------------------------------------------------------
\* np.linalg.norm(p - q); exact when the distance is a whole number of pixels
Norm(p, q) == ISqrt((p.x - q.x) * (p.x - q.x) + (p.y - q.y) * (p.y - q.y))

\* (vertical_1 + vertical_2) / (2.0 * horizontal), in thousandths
calculate_eye_aspect_ratio(eye_points) ==
    IF Len(eye_points) < 6 THEN EarDefault
    ELSE LET vertical_1 == Norm(eye_points[2], eye_points[6])
             vertical_2 == Norm(eye_points[3], eye_points[5])
             horizontal == Norm(eye_points[1], eye_points[4])
         IN  IF horizontal = 0 THEN EarDefault
             ELSE ((vertical_1 + vertical_2) * 1000) \div (2 * horizontal)

\* ------------------------------------------------------------------------
\* detect_eyes_detailed: w is the face region's width, eyes the boxes
\* [x, y, w, h] the eye cascade reports, in the order it reports them
\* ------------------------------------------------------------------------
RECURSIVE InsertByX(_, _)
InsertByX(sorted, e) ==
    IF sorted = <<>> THEN <<e>>
    ELSE IF e.x < Head(sorted).x THEN <<e>> \o sorted
    ELSE <<Head(sorted)>> \o InsertByX(Tail(sorted), e)

\* sorted(eyes, key=lambda x: x[0]), stable
RECURSIVE SortByX(_)
SortByX(eyes) ==
    IF eyes = <<>> THEN <<>>
    ELSE InsertByX(SortByX(SubSeq(eyes, 1, Len(eyes) - 1)), eyes[Len(eyes)])

\* min(h / (w * 2.0), 0.4) in thousandths; exact when 2*w divides 1000*h
BoxEar(box) == Min((box.h * 1000) \div (box.w * 2), EarCap)

\* eye_open_threshold = self.EAR_THRESHOLD * 1.2
EyeOpenThreshold == (EAR_THRESHOLD * 12) \div 10

\* x + w // 2
CenterX(box) == box.x + (box.w \div 2)

\* y + h // 2
CenterY(box) == box.y + (box.h \div 2)

\* eye_gaze from the offset of the eyes' midpoint from the face centre:
\* offset_ratio = (eye_center_x - w/2) / (w/2) against +-GAZE_CENTER_THRESHOLD
GazeDirection(w, left_eye, right_eye) ==
    IF left_eye # None /\ right_eye # None
    THEN LET off == CenterX(left_eye) + CenterX(right_eye) - w
         IN  IF off * 10 > 3 * w THEN "right"
             ELSE IF off * 10 < -(3 * w) THEN "left"
             ELSE "center"
    ELSE "center"

\* in place of the list of eye boxes: the eye cascade (or anything else inside
\* the try block) raised
CascadeRaised == <<[error |-> "cv2.error"]>>

\* the record of the except branch: closed eyes
EyesOnError ==
    [ left_eye |-> None,
      right_eye |-> None,
      left_ear |-> EarClosed,
      right_ear |-> EarClosed,
      left_open |-> FALSE,
      right_open |-> FALSE,
      avg_ear |-> EarClosed,
      gaze_direction |-> "unknown",
      eyes_detected |-> 0 ]

detect_eyes_detailed(w, eyes) ==
    IF eyes = CascadeRaised THEN EyesOnError ELSE
    LET n == Len(eyes)
        byX == SortByX(eyes)
        left_eye == IF n >= 2 THEN byX[1]
                    ELSE IF n = 1 /\ 2 * eyes[1].x < w THEN eyes[1]
                    ELSE None
        right_eye == IF n >= 2 THEN byX[2]
                     ELSE IF n = 1 /\ ~(2 * eyes[1].x < w) THEN eyes[1]
                     ELSE None
        left_ear == IF n >= 2
                    THEN IF left_eye.w > 0 /\ left_eye.h > 0
                         THEN BoxEar(left_eye) ELSE EarDefault
                    ELSE IF left_eye # None
                         THEN IF left_eye.w > 0 THEN BoxEar(left_eye) ELSE EarDefault
                         ELSE EarDefault
        right_ear == IF n >= 2
                     THEN IF right_eye.w > 0 /\ right_eye.h > 0
                          THEN BoxEar(right_eye) ELSE EarDefault
                     ELSE IF right_eye # None
                          THEN IF right_eye.w > 0 THEN BoxEar(right_eye) ELSE EarDefault
                          ELSE EarDefault
        very_low == n >= 1 /\ (left_ear < EarClosed \/ right_ear < EarClosed)
    IN  [ left_eye |-> left_eye,
          right_eye |-> right_eye,
          left_ear |-> left_ear,
          right_ear |-> right_ear,
          left_open |-> left_ear > EyeOpenThreshold /\ ~very_low /\ n # 0,
          right_open |-> right_ear > EyeOpenThreshold /\ ~very_low /\ n # 0,
          avg_ear |-> IF n = 0 THEN EarClosed
                      ELSE IF n >= 2 THEN (left_ear + right_ear) \div 2
                      ELSE Max(left_ear, right_ear),
          gaze_direction |-> GazeDirection(w, left_eye, right_eye),
          eyes_detected |-> n ]

\* ------------------------------------------------------------------------
\* detect_blink / calculate_blink_rate
\* ------------------------------------------------------------------------
\* all(ear < self.EAR_THRESHOLD for ear in s)
AllBelow(s) == \A i \in 1..Len(s) : s[i] < EAR_THRESHOLD

\* the test of detect_blink on the history that already holds the new sample
BlinkFires(history) ==
    /\ Len(history) >= EAR_CONSEC_FRAMES
    /\ LET recent_ears == LastN(history, EAR_CONSEC_FRAMES)
       IN  /\ AllBelow(LastN(recent_ears, 3))
           /\ Len(recent_ears) > 3
           /\ recent_ears[Len(recent_ears) - 3] > EAR_THRESHOLD

\* the except branch: eye_data['avg_ear'] raises KeyError
BlinkRaises(eye_data) == "avg_ear" \notin DOMAIN eye_data

EarHistoryAfterBlink(eye_data) ==
    IF BlinkRaises(eye_data) THEN eye_aspect_ratio_history
    ELSE DequeAppend(eye_aspect_ratio_history, eye_data.avg_ear, EarHistoryLen)

BlinkDetected(eye_data) ==
    ~BlinkRaises(eye_data) /\ BlinkFires(EarHistoryAfterBlink(eye_data))

BlinkHistoryAfterBlink(eye_data) ==
    IF BlinkRaises(eye_data) THEN blink_history
    ELSE DequeAppend(blink_history,
                     IF BlinkDetected(eye_data) THEN 1 ELSE 0, BlinkHistoryLen)

\* a faulty calculate_blink_rate: only the last BlinkRateMinSamples flags are summed
BlinkRateOfRecentFlags(history) ==
    IF Len(history) < BlinkRateMinSamples THEN 0
    ELSE SumSeq(LastN(history, BlinkRateMinSamples))

\* recent_blinks / 30.0, in thirtieths
calculate_blink_rate(history) ==
    IF Len(history) < BlinkRateMinSamples THEN 0
    ELSE SumSeq(LastN(history, 30))

\* ------------------------------------------------------------------------
\* detect_yawn: h, w are the face region's height and width
\* ------------------------------------------------------------------------
\* mouth_region = face_roi[int(h*0.6):h, :]
MouthHeight(h) == h - ((h * 6) \div 10)

YawnSkips(h, w) == MouthHeight(h) * w = 0

\* mar = mouth_height / mouth_width, in thousandths
Mar(h, w) == (MouthHeight(h) * 1000) \div w

AllAboveYawn(s) == \A i \in 1..Len(s) : s[i] > YAWN_THRESHOLD

\* a faulty YawnFires: the window is one frame short
YawnFiresOneShort(history) ==
    /\ Len(history) >= YAWN_CONSEC_FRAMES - 1
    /\ AllAboveYawn(LastN(history, YAWN_CONSEC_FRAMES - 1))

\* the test of detect_yawn on the history that already holds the new sample
YawnFires(history) ==
    /\ Len(history) >= YAWN_CONSEC_FRAMES
    /\ AllAboveYawn(LastN(history, YAWN_CONSEC_FRAMES))

MouthHistoryAfterYawn(h, w) ==
    IF YawnSkips(h, w) THEN mouth_history
    ELSE DequeAppend(mouth_history, Mar(h, w), MouthHistoryLen)

YawnDetected(h, w) ==
    ~YawnSkips(h, w) /\ YawnFires(MouthHistoryAfterYawn(h, w))

YawnIntensity(h, w) == IF YawnSkips(h, w) THEN 0 ELSE Mar(h, w)

\* ------------------------------------------------------------------------
\* estimate_head_pose_advanced: angles in tenths of a degree
\* ------------------------------------------------------------------------
\* roll is math.degrees(math.atan2(eye_dy, eye_dx)); it is kept as the pair
\* of arguments of atan2, and 0.0 is the pair (0, 1)
ZeroRoll == [dy |-> 0, dx |-> 1]

ZeroPose == [pitch |-> 0, yaw |-> 0, roll |-> ZeroRoll]

BothEyes(eyes_data) ==
    eyes_data.left_eye # None /\ eyes_data.right_eye # None

\* division by face_center_x or face_center_y of an empty region
PoseRaises(h, w, eyes_data) ==
    \/ "left_eye" \notin DOMAIN eyes_data
    \/ "right_eye" \notin DOMAIN eyes_data
    \/ BothEyes(eyes_data) /\ (w = 0 \/ h = 0)

HeadPose(h, w, eyes_data) ==
    IF PoseRaises(h, w, eyes_data) \/ ~BothEyes(eyes_data) THEN ZeroPose
    ELSE LET l == eyes_data.left_eye
             r == eyes_data.right_eye
             eye_dy == CenterY(r) - CenterY(l)
             eye_dx == CenterX(r) - CenterX(l)
         IN  [ pitch |-> ((CenterY(l) + CenterY(r) - h) * 300) \div h,
               yaw |-> ((CenterX(l) + CenterX(r) - w) * 450) \div w,
               roll |-> IF eye_dx # 0 THEN [dy |-> eye_dy, dx |-> eye_dx]
                        ELSE ZeroRoll ]

\* self.head_pose_history after estimate_head_pose_advanced
PoseHistoryAfterEstimate(history, h, w, eyes_data) ==
    IF PoseRaises(h, w, eyes_data) THEN history
    ELSE DequeAppend(history, HeadPose(h, w, eyes_data), HeadPoseHistoryLen)

\* ------------------------------------------------------------------------
\* calculate_attention_score
\* ------------------------------------------------------------------------
BaseScore == 50

Has(rec, key) == key \in DOMAIN rec

\* eyes_data.get(key, default)
Get(rec, key, default) == IF Has(rec, key) THEN rec[key] ELSE default

\* the lookups that raise KeyError inside the try block
ScoreRaises(emotions_data, eyes_data, head_pose) ==
    \/ ~Has(eyes_data, "left_open")
    \/ ~Has(eyes_data, "right_open")
    \/ ~Has(eyes_data, "gaze_direction")
    \/ ~Has(head_pose, "yaw")
    \/ ~Has(head_pose, "pitch")
    \/ emotions_data # <<>> /\ ~Has(emotions_data[1], "emotion")

FaceScore(base, emotions_data) ==
    IF emotions_data # <<>> THEN base + 20 ELSE base

\* a faulty EyeScore: the closed-eyes penalty is 5 instead of 50
EyeScoreMildPenalty(base, eyes_data) ==
    LET both_open == eyes_data.left_open /\ eyes_data.right_open
        avg_ear == Get(eyes_data, "avg_ear", EarDefault)
        eyes_detected_count == Get(eyes_data, "eyes_detected", 0)
    IN  IF both_open /\ avg_ear > EAR_THRESHOLD /\ eyes_detected_count >= 2
        THEN base + 20
        ELSE IF (eyes_data.left_open \/ eyes_data.right_open)
                /\ avg_ear * 10 > EAR_THRESHOLD * 8
        THEN base + 5
        ELSE Max(0, base - 5)

EyeScore(base, eyes_data) ==
    LET both_open == eyes_data.left_open /\ eyes_data.right_open
        avg_ear == Get(eyes_data, "avg_ear", EarDefault)
        eyes_detected_count == Get(eyes_data, "eyes_detected", 0)
    IN  IF both_open /\ avg_ear > EAR_THRESHOLD /\ eyes_detected_count >= 2
        THEN base + 20
        ELSE IF (eyes_data.left_open \/ eyes_data.right_open)
                /\ avg_ear * 10 > EAR_THRESHOLD * 8
        THEN base + 5
        ELSE Max(0, base - 50)

GazeScore(base, eyes_data) ==
    IF eyes_data.gaze_direction = "center" THEN base + 15
    ELSE IF eyes_data.gaze_direction \in {"left", "right"} THEN base - 10
    ELSE base

\* a faulty PoseScore: a pose between the bands is penalised as looking away
PoseScoreNoGap(base, head_pose) ==
    LET yaw_abs == Abs(head_pose.yaw)
        pitch == head_pose.pitch
    IN  IF yaw_abs < 100 /\ -50 < pitch /\ pitch < 100 THEN base + 15
        ELSE IF yaw_abs < 200 /\ -100 < pitch /\ pitch < 150 THEN base + 5
        ELSE base - 20

PoseScore(base, head_pose) ==
    LET yaw_abs == Abs(head_pose.yaw)
        pitch == head_pose.pitch
    IN  IF yaw_abs < 100 /\ -50 < pitch /\ pitch < 100 THEN base + 15
        ELSE IF yaw_abs < 200 /\ -100 < pitch /\ pitch < 150 THEN base + 5
        ELSE IF yaw_abs > 250 \/ pitch < -150 \/ pitch > 200 THEN base - 20
        ELSE base

BlinkScore(base, blink_rate) ==
    IF blink_rate > BLINK_RATE_THRESHOLD THEN base - 15
    ELSE IF blink_rate * 10 > BLINK_RATE_THRESHOLD * 7 THEN base - 5
    ELSE base

YawnScore(base, yawn_detected) ==
    IF yawn_detected THEN base - 15 ELSE base

\* a faulty EmotionScore: the Happy and Neutral adjustments are swapped
EmotionScoreSwapped(base, emotions_data) ==
    IF emotions_data = <<>> THEN base
    ELSE LET emotion == emotions_data[1].emotion
         IN  IF emotion = "Happy" THEN base + 5
             ELSE IF emotion = "Neutral" THEN base + 10
             ELSE IF emotion \in {"Sad", "Angry"} THEN base - 5
             ELSE IF emotion = "Surprise" THEN base + 3
             ELSE base

EmotionScore(base, emotions_data) ==
    IF emotions_data = <<>> THEN base
    ELSE LET emotion == emotions_data[1].emotion
         IN  IF emotion = "Happy" THEN base + 10
             ELSE IF emotion = "Neutral" THEN base + 5
             ELSE IF emotion \in {"Sad", "Angry"} THEN base - 5
             ELSE IF emotion = "Surprise" THEN base + 3
             ELSE base

\* base_score just before the final normalisation
RawScore(emotions_data, eyes_data, head_pose, blink_rate, yawn_detected) ==
    EmotionScore(
      YawnScore(
        BlinkScore(
          PoseScore(
            GazeScore(
              EyeScore(FaceScore(BaseScore, emotions_data), eyes_data),
              eyes_data),
            head_pose),
          blink_rate),
        yawn_detected),
      emotions_data)

\* a faulty Normalize: the ceiling is missing
NormalizeFloorOnly(base) == Max(0, base)

\* max(0.0, min(100.0, base_score))
Normalize(base) == Max(0, Min(100, base))

calculate_attention_score(emotions_data, eyes_data, head_pose, blink_rate, yawn_detected) ==
    IF ScoreRaises(emotions_data, eyes_data, head_pose) THEN 50
    ELSE Normalize(RawScore(emotions_data, eyes_data, head_pose,
                            blink_rate, yawn_detected))

\* ------------------------------------------------------------------------
\* determine_attention_status
\* ------------------------------------------------------------------------
\* the lookups that raise KeyError before the eyes-closed test returns
ClosedTestRaises(eyes_data) ==
    \/ ~Has(eyes_data, "left_open")
    \/ ~eyes_data.left_open /\ ~Has(eyes_data, "right_open")
    \/ ~(~eyes_data.left_open /\ ~eyes_data.right_open)
         /\ ~Has(eyes_data, "eyes_detected")

\* a faulty EyesClosed: the low-EAR test is missing
EyesClosedFlagsOnly(eyes_data) ==
    ~eyes_data.left_open /\ ~eyes_data.right_open

\* both_eyes_closed or (eyes_detected < 2 and eyes_likely_closed)
EyesClosed(eyes_data) ==
    \/ ~eyes_data.left_open /\ ~eyes_data.right_open
    \/ /\ eyes_data.eyes_detected < 2
       /\ Get(eyes_data, "avg_ear", EarDefault) < EAR_THRESHOLD

LookingAway(head_pose) ==
    Abs(head_pose.yaw) > 300 \/ head_pose.pitch < -200

\* the working score after the one-eye adjustment
WorkingScore(attention_score, eyes_data) ==
    IF (~eyes_data.left_open \/ ~eyes_data.right_open) /\ attention_score > 30
    THEN 25 ELSE attention_score

ScoreBand(score) ==
    IF score >= 75 THEN "Attentive"
    ELSE IF score >= 50 THEN "Partially Attentive"
    ELSE IF score >= 30 THEN "Distracted"
    ELSE "Inattentive"

\* the lookups that raise KeyError inside the try block, each reached only
\* when no earlier rule has returned
StatusRaises(eyes_data, head_pose, yawn_detected) ==
    IF ClosedTestRaises(eyes_data) THEN TRUE
    ELSE IF EyesClosed(eyes_data) \/ yawn_detected THEN FALSE
    ELSE IF ~Has(head_pose, "yaw") \/ ~Has(head_pose, "pitch") THEN TRUE
    ELSE IF LookingAway(head_pose) THEN FALSE
    ELSE eyes_data.left_open /\ ~Has(eyes_data, "right_open")

\* a faulty determine_attention_status: an exception falls through to the
\* score bands
StatusBandOnError(attention_score, eyes_data, head_pose, yawn_detected) ==
    IF StatusRaises(eyes_data, head_pose, yawn_detected)
    THEN ScoreBand(attention_score)
    ELSE IF EyesClosed(eyes_data) THEN "Distracted (Eyes Closed)"
    ELSE IF yawn_detected THEN "Drowsy / Fatigued"
    ELSE IF LookingAway(head_pose) THEN "Inattentive (Looking Away)"
    ELSE ScoreBand(WorkingScore(attention_score, eyes_data))

\* a faulty determine_attention_status: looking away is tested before the yawn
StatusLookingAwayFirst(attention_score, eyes_data, head_pose, yawn_detected) ==
    IF StatusRaises(eyes_data, head_pose, yawn_detected) THEN "Unknown"
    ELSE IF EyesClosed(eyes_data) THEN "Distracted (Eyes Closed)"
    ELSE IF Has(head_pose, "yaw") /\ Has(head_pose, "pitch") /\ LookingAway(head_pose)
    THEN "Inattentive (Looking Away)"
    ELSE IF yawn_detected THEN "Drowsy / Fatigued"
    ELSE ScoreBand(WorkingScore(attention_score, eyes_data))

determine_attention_status(attention_score, eyes_data, head_pose, yawn_detected) ==
    IF StatusRaises(eyes_data, head_pose, yawn_detected) THEN "Unknown"
    ELSE IF EyesClosed(eyes_data) THEN "Distracted (Eyes Closed)"
    ELSE IF yawn_detected THEN "Drowsy / Fatigued"
    ELSE IF LookingAway(head_pose) THEN "Inattentive (Looking Away)"
    ELSE ScoreBand(WorkingScore(attention_score, eyes_data))

\* ------------------------------------------------------------------------
\* Calls of the detector's methods
\* ------------------------------------------------------------------------
\* detect_blink(eye_data), called on its own
detect_blink(eye_data) ==
    /\ Len(eye_aspect_ratio_history) < MaxBlinkCalls
    /\ eye_aspect_ratio_history' = EarHistoryAfterBlink(eye_data)
    /\ blink_history' = BlinkHistoryAfterBlink(eye_data)
    /\ ret' = [op |-> "detect_blink", value |-> BlinkDetected(eye_data)]
    /\ args' = [eye_data |-> eye_data]
    /\ UNCHANGED <<audioVars, head_pose_history, mouth_history,
                   emotion_history, enhanced, threads, pc>>

\* detect_yawn(face_roi), called on its own with a region of h rows, w columns
detect_yawn(h, w) ==
    /\ Len(mouth_history) < MaxYawnCalls
    /\ mouth_history' = MouthHistoryAfterYawn(h, w)
    /\ ret' = [op |-> "detect_yawn", sampled |-> ~YawnSkips(h, w),
               yawn |-> YawnDetected(h, w), mar |-> YawnIntensity(h, w)]
    /\ args' = [h |-> h, w |-> w]
    /\ UNCHANGED <<audioVars, blink_history, eye_aspect_ratio_history,
                   head_pose_history, emotion_history, enhanced, threads, pc>>

\* calculate_attention_score followed by determine_attention_status on the
\* arguments drawn in the initial state (lines 328-337 of the pipeline)
ScoreAndClassify ==
    /\ pc = "ready"
    /\ LET score == calculate_attention_score(args.emotions_data, args.eyes_data,
                        args.head_pose, args.blink_rate, args.yawn_detected)
       IN  ret' = [op |-> "score", attention_score |-> score,
                   status |-> determine_attention_status(score, args.eyes_data,
                                  args.head_pose, args.yawn_detected)]
    /\ pc' = "done"
    /\ UNCHANGED <<audioVars, detectorVars, enhanced, threads, args>>

\* a faulty NoFaceSnapshot: the snapshot of the outer except branch (status "Error")
ErrorSnapshot ==
    [ face_detected |-> FALSE,
      attention_score |-> 0,
      status |-> "Error",
      head_pose |-> ZeroPose,
      eye_gaze |-> [direction |-> "unknown", left_open |-> FALSE,
                    right_open |-> FALSE],
      blink_rate |-> 0,
      yawn_detected |-> FALSE ]

\* the snapshot returned when detect_emotion finds no face
NoFaceSnapshot ==
    [ face_detected |-> FALSE,
      attention_score |-> 0,
      status |-> "Absent / Disengaged",
      head_pose |-> ZeroPose,
      eye_gaze |-> [direction |-> "unknown", left_open |-> FALSE,
                    right_open |-> FALSE],
      blink_rate |-> 0,
      yawn_detected |-> FALSE ]

\* the snapshot returned for the first face of emotions_data
FaceSnapshot(emotions_data) ==
    LET face == emotions_data[1]
        eyes_data == detect_eyes_detailed(face.w, face.eyes)
        blink_rate == calculate_blink_rate(BlinkHistoryAfterBlink(eyes_data))
        yawn_detected == YawnDetected(face.h, face.w)
        head_pose == HeadPose(face.h, face.w, eyes_data)
        attention_score == calculate_attention_score(emotions_data, eyes_data,
                               head_pose, blink_rate, yawn_detected)
    IN  [ face_detected |-> TRUE,
          attention_score |-> attention_score,
          status |-> determine_attention_status(attention_score, eyes_data,
                         head_pose, yawn_detected),
          head_pose |-> head_pose,
          eye_gaze |-> [direction |-> eyes_data.gaze_direction,
                        left_open |-> eyes_data.left_open,
                        right_open |-> eyes_data.right_open,
                        left_ear |-> eyes_data.left_ear,
                        right_ear |-> eyes_data.right_ear],
          blink_rate |-> blink_rate,
          blink_detected |-> BlinkDetected(eyes_data),
          yawn_detected |-> yawn_detected,
          yawn_intensity |-> YawnIntensity(face.h, face.w) ]

\* a faulty FrameUpdate: a frame without a face records a no-blink sample
FrameUpdateAgingOnAbsence(frame) ==
    IF frame.faces = <<>>
    THEN /\ blink_history' = DequeAppend(blink_history, 0, BlinkHistoryLen)
         /\ UNCHANGED <<eye_aspect_ratio_history, head_pose_history,
                        mouth_history, emotion_history>>
    ELSE LET face == frame.faces[1]
             eyes_data == detect_eyes_detailed(face.w, face.eyes)
         IN  /\ eye_aspect_ratio_history' = EarHistoryAfterBlink(eyes_data)
             /\ blink_history' = BlinkHistoryAfterBlink(eyes_data)
             /\ mouth_history' = MouthHistoryAfterYawn(face.h, face.w)
             /\ head_pose_history' =
                    DequeAppend(
                        PoseHistoryAfterEstimate(head_pose_history,
                                                 face.h, face.w, eyes_data),
                        HeadPose(face.h, face.w, eyes_data),
                        HeadPoseHistoryLen)
             /\ emotion_history' =
                    DequeAppend(emotion_history, face.emotion, EmotionHistoryLen)

\* detect_emotion_and_attention(frame): frame.faces is the emotions_data that
\* detect_emotion returns for the frame, each face with the size of its
\* region (w, h), its emotion label and the eye boxes found in it
\* the history windows after the pipeline has run on the frame
FrameUpdate(frame) ==
    IF frame.faces = <<>>
    THEN UNCHANGED detectorVars
    ELSE LET face == frame.faces[1]
             eyes_data == detect_eyes_detailed(face.w, face.eyes)
         IN  /\ eye_aspect_ratio_history' = EarHistoryAfterBlink(eyes_data)
             /\ blink_history' = BlinkHistoryAfterBlink(eyes_data)
             /\ mouth_history' = MouthHistoryAfterYawn(face.h, face.w)
             /\ head_pose_history' =
                    DequeAppend(
                        PoseHistoryAfterEstimate(head_pose_history,
                                                 face.h, face.w, eyes_data),
                        HeadPose(face.h, face.w, eyes_data),
                        HeadPoseHistoryLen)
             /\ emotion_history' =
                    DequeAppend(emotion_history, face.emotion, EmotionHistoryLen)

\* attention_data returned for the frame
Snapshot(frame) ==
    IF frame.faces = <<>> THEN NoFaceSnapshot ELSE FaceSnapshot(frame.faces)

detect_emotion_and_attention(frame) ==
    /\ FrameUpdate(frame)
    /\ ret' = [op |-> "detect_emotion_and_attention", data |-> Snapshot(frame)]
    /\ args' = [frame |-> frame]
    /\ UNCHANGED <<audioVars, enhanced, threads, pc>>

\* the score of one eye observation with every other signal at its good
\* default: Happy face, gaze center, yaw 0, pitch 0, blink rate 0, no yawn
GoodDefaultsScore(w, eyes) ==
    calculate_attention_score(
        <<[emotion |-> "Happy"]>>,
        [detect_eyes_detailed(w, eyes) EXCEPT !.gaze_direction = "center"],
        ZeroPose, 0, FALSE)

\* calculate_attention_score on three eye observations of the same face
ScoreEyeStates ==
    /\ pc = "ready"
    /\ ret' = [op |-> "eye_states",
               closed |-> GoodDefaultsScore(args.w, args.closed),
               one |-> GoodDefaultsScore(args.w, args.one),
               both |-> GoodDefaultsScore(args.w, args.both)]
    /\ pc' = "done"
    /\ UNCHANGED <<audioVars, detectorVars, enhanced, threads, args>>

\* calculate_eye_aspect_ratio(eye_points) on the landmarks drawn in the
\* initial state
EarOfLandmarks ==
    /\ pc = "ready"
    /\ Has(args, "eye_points")
    /\ ret' = [op |-> "calculate_eye_aspect_ratio",
               ear |-> calculate_eye_aspect_ratio(args.eye_points)]
    /\ pc' = "done"
    /\ UNCHANGED <<audioVars, detectorVars, enhanced, threads, args>>

\* detect_eyes_detailed on the eye boxes drawn in the initial state
EyesOfBoxes ==
    /\ pc = "ready"
    /\ Has(args, "eyes")
    /\ ret' = [op |-> "detect_eyes_detailed",
               eyes_data |-> detect_eyes_detailed(args.w, args.eyes)]
    /\ pc' = "done"
    /\ UNCHANGED <<audioVars, detectorVars, enhanced, threads, args>>

\* calculate_blink_rate() on the blink-flag window the detector holds
BlinkRateOfWindow ==
    /\ pc = "ready"
    /\ ret' = [op |-> "calculate_blink_rate",
               rate |-> calculate_blink_rate(blink_history)]
    /\ pc' = "done"
    /\ UNCHANGED <<audioVars, detectorVars, enhanced, threads, args>>

\* ------------------------------------------------------------------------
\* EnhancedEmotionDetector (enhanced_emotion_detector.py).  A frame is the
\* list of regions the face cascade reports for it, in the order it reports
\* them; each region carries its size (w, h) and what the feature detectors
\* report inside it: the emotion label, the head pose (tenths of a degree) and
\* the eye gaze.  The attention score is kept in thousandths of a point
\* (80 is 80000), rounded down.
\* ------------------------------------------------------------------------
\* deque(maxlen=300): attention, emotion and face-presence windows
EnhancedHistoryLen == 300

\* deque(maxlen=60): head-pose window
EnhancedPoseHistoryLen == 60

\* 30 degrees, in tenths
HEAD_TURN_THRESHOLD == 300

\* the windows after __init__
FreshEnhanced ==
    [ attention_history |-> <<>>,
      emotion_history |-> <<>>,
      face_presence_history |-> <<>>,
      head_pose_history |-> <<>> ]

\* the head_pose and eye_gaze attention_data is created with
DefaultGaze ==
    [left_eye_open |-> TRUE, right_eye_open |-> TRUE, gaze_direction |-> "center"]

\* max(faces, key=lambda x: x[2] * x[3]): the first region of the largest area
largest_face(faces) ==
    faces[CHOOSE i \in 1..Len(faces) :
              /\ \A j \in 1..Len(faces) : faces[j].w * faces[j].h <= faces[i].w * faces[i].h
              /\ \A j \in 1..(i - 1) : faces[j].w * faces[j].h < faces[i].w * faces[i].h]

\* attention_data and emotions_data as they stand at line 106
AttentionData(frame) ==
    IF frame.faces = <<>>
    THEN [face_detected |-> FALSE, head_pose |-> ZeroPose, eye_gaze |-> DefaultGaze]
    ELSE LET face == largest_face(frame.faces)
         IN  [face_detected |-> TRUE, head_pose |-> face.head_pose,
              eye_gaze |-> face.eye_gaze]

EmotionsData(frame) ==
    IF frame.faces = <<>> THEN <<>>
    ELSE <<[emotion |-> largest_face(frame.faces).emotion]>>

\* the windows `d` after update_attention_history; of an attention_history
\* entry only the eye gaze is kept, the one part that is read again
update_attention_history(d, attention_data, emotions_data) ==
    [ face_presence_history |->
          DequeAppend(d.face_presence_history, attention_data.face_detected,
                      EnhancedHistoryLen),
      emotion_history |->
          IF emotions_data # <<>>
          THEN DequeAppend(d.emotion_history, emotions_data[1].emotion,
                           EnhancedHistoryLen)
          ELSE d.emotion_history,
      head_pose_history |->
          DequeAppend(d.head_pose_history, attention_data.head_pose,
                      EnhancedPoseHistoryLen),
      attention_history |->
          DequeAppend(d.attention_history, attention_data.eye_gaze,
                      EnhancedHistoryLen) ]

\* emotion_weights, in tenths
EmotionWeight(emotion) ==
    IF emotion = "Happy" THEN 10
    ELSE IF emotion = "Surprise" THEN 8
    ELSE IF emotion = "Neutral" THEN 5
    ELSE IF emotion = "Sad" THEN 2
    ELSE IF emotion \in {"Angry", "Fear", "Disgust"} THEN 1
    ELSE 5

\* EnhancedEmotionDetector.calculate_attention_score on the windows d, in
\* thousandths of a point:
\* (rate * 0.3 + max(0, pose) * 0.25 + max(0, gaze) * 0.25 + emotion * 0.2) * 100
Enhanced_calculate_attention_score(d) ==
    IF d.attention_history = <<>> THEN 0
    ELSE LET recent_faces == LastN(d.face_presence_history, 30)
             n == Len(recent_faces)
             k == Cardinality({i \in 1..n : recent_faces[i]})
             recent_poses == LastN(d.head_pose_history, 10)
             head_pose_score ==
                 10 - 2 * Cardinality({i \in 1..Len(recent_poses) :
                                     Abs(recent_poses[i].yaw) > HEAD_TURN_THRESHOLD})
                    - Cardinality({i \in 1..Len(recent_poses) :
                                 Abs(recent_poses[i].pitch) > HEAD_TURN_THRESHOLD})
             recent_attention == LastN(d.attention_history, 10)
             eye_gaze_score ==
                 10 - 3 * Cardinality({i \in 1..Len(recent_attention) :
                                     \/ ~recent_attention[i].left_eye_open
                                     \/ ~recent_attention[i].right_eye_open})
                    - 2 * Cardinality({i \in 1..Len(recent_attention) :
                                     recent_attention[i].gaze_direction # "center"})
             recent_emotions == LastN(d.emotion_history, 30)
             m == Len(recent_emotions)
             weighted_sum == SumSeq([i \in 1..m |-> EmotionWeight(recent_emotions[i])])
             nn == Max(n, 1)
             mm == Max(m, 1)
             total ==
                 30000 * k * mm
                 + 2500 * (Max(0, head_pose_score) + Max(0, eye_gaze_score)) * nn * mm
                 + (IF m = 0 THEN 10000 * nn ELSE 2000 * weighted_sum * nn)
         IN  Min(100000, Max(0, total \div (nn * mm)))

\* EnhancedEmotionDetector.determine_attention_status on the windows d
Enhanced_determine_attention_status(d) ==
    LET attention_score == Enhanced_calculate_attention_score(d)
        recent_faces == LastN(d.face_presence_history, 30)
        recent_emotions == LastN(d.emotion_history, 300)
    IN  IF /\ recent_faces # <<>>
           /\ 10 * Cardinality({i \in 1..Len(recent_faces) : recent_faces[i]})
                  < Len(recent_faces)
        THEN "Absent / Disengaged"
        ELSE IF /\ recent_emotions # <<>>
                /\ 10 * Cardinality({i \in 1..Len(recent_emotions) :
                                   recent_emotions[i] = "Neutral"})
                       > 8 * Len(recent_emotions)
        THEN "Low Engagement"
        ELSE IF attention_score >= 80000 THEN "Attentive"
        ELSE IF attention_score >= 50000 THEN "Partially Attentive"
        ELSE IF attention_score >= 20000 THEN "Distracted"
        ELSE "Inattentive"

\* the windows d after detect_emotion_and_attention has run on the frame
EnhancedAfterFrame(d, frame) ==
    update_attention_history(d, AttentionData(frame), EmotionsData(frame))

\* EnhancedEmotionDetector.detect_emotion_and_attention(frame)
Enhanced_detect_emotion_and_attention(frame) ==
    /\ \E d \in {EnhancedAfterFrame(enhanced, frame)} :
           /\ enhanced' = d
           /\ ret' = [op |-> "Enhanced.detect_emotion_and_attention",
                      emotions_data |-> EmotionsData(frame),
                      data |-> [face_detected |-> frame.faces # <<>>,
                                head_pose |-> AttentionData(frame).head_pose,
                                eye_gaze |-> AttentionData(frame).eye_gaze,
                                attention_score |-> Enhanced_calculate_attention_score(d),
                                status |-> Enhanced_determine_attention_status(d)]]
    /\ args' = [frame |-> frame]
    /\ UNCHANGED <<audioVars, detectorVars, threads, pc>>

\* ------------------------------------------------------------------------
\* Web handlers (app_simple.py).  Every request names its monitoring session;
\* the handlers call the module-level emotion_detector and audio_processor.
\* ------------------------------------------------------------------------
\* the detector and audio-processor state a request of `session` reads and
\* writes: the module globals, whichever the session
SessionState(session) == <<audioVars, detectorVars>>

\* POST /api/audio_data
process_audio_data(session, chunk) ==
    /\ IF Len(chunk) = 0
       THEN /\ ret' = [op |-> "process_audio_data", session |-> session,
                       voice_active |-> FALSE, noise_level |-> 0,
                       is_noisy |-> is_noisy_environment(0),
                       voice_status |-> get_voice_activity_status(FALSE, 0)]
            /\ UNCHANGED audioVars
       ELSE \E level \in {CombinedLevel(chunk)} :
                /\ ChunkUpdate(level)
                /\ \E voice_active \in {VoiceActive(level, voice_frames)},
                      noise_level \in {NoiseLevel(audio_history')} :
                       ret' = [op |-> "process_audio_data", session |-> session,
                               voice_active |-> voice_active,
                               noise_level |-> noise_level,
                               is_noisy |-> is_noisy_environment(noise_level),
                               voice_status |->
                                   get_voice_activity_status(voice_active, noise_level)]
    /\ args' = [session |-> session, chunk |-> chunk]
    /\ UNCHANGED <<detectorVars, enhanced, threads, pc>>

\* the statuses for which the handler alerts the teacher room (line 404)
AlertStatuses ==
    {"Distracted", "Inattentive", "Absent / Disengaged", "Low Engagement"}

\* whether student_attention_alert is emitted for the detector's answer
student_attention_alert(attention_data) ==
    \/ ~attention_data.face_detected
    \/ attention_data.attention_score < 30
    \/ attention_data.status \in AlertStatuses

\* POST /api/emotion_data: the detector's answer and the alert emitted
process_emotion_data(session, frame) ==
    /\ FrameUpdate(frame)
    /\ ret' = [op |-> "process_emotion_data", session |-> session,
               data |-> Snapshot(frame),
               alert |-> student_attention_alert(Snapshot(frame))]
    /\ args' = [session |-> session, frame |-> frame]
    /\ UNCHANGED <<audioVars, enhanced, threads, pc>>

\* ------------------------------------------------------------------------
\* Server threads.  socketio runs the application with async_mode =
\* 'threading': every request is handled on a thread of its own, and
\* process_audio_data calls the module-level audio_processor without a lock.
\* A thread inside process_audio_chunk is at one of its lines; `level`,
\* `noise_level`, `loaded` and `voice_active` are its locals, `served` the
\* number of requests it has answered.
\* ------------------------------------------------------------------------
Threads == {1, 2}

Idle(served) ==
    [pc |-> "idle", level |-> 0, noise_level |-> 0, loaded |-> 0,
     voice_active |-> FALSE, served |-> served]

NoThreads == [t \in Threads |-> Idle(0)]

\* lines 438-461 of the handler and 23-44 of process_audio_chunk: the
\* request is decoded and combined_level computed
ThreadReceive(t, chunk) ==
    /\ threads[t].pc = "idle"
    /\ chunk # <<>>
    /\ threads' = [threads EXCEPT ![t].pc = "line47",
                                  ![t].level = CombinedLevel(chunk)]
    /\ args' = [thread |-> t, chunk |-> chunk]
    /\ UNCHANGED <<audioVars, detectorVars, enhanced, ret, pc>>

\* line 47: self.audio_history.append(combined_level)
ThreadAppend(t) ==
    /\ threads[t].pc = "line47"
    /\ audio_history' = Append(audio_history, threads[t].level)
    /\ threads' = [threads EXCEPT ![t].pc = "line48"]
    /\ UNCHANGED <<voice_frames, silence_frames, detectorVars, enhanced,
                   args, ret, pc>>

\* lines 48-49: if len(self.audio_history) > 30: self.audio_history.pop(0)
ThreadEvict(t) ==
    /\ threads[t].pc = "line48"
    /\ audio_history' = IF Len(audio_history) > AudioHistoryLen
                        THEN Tail(audio_history) ELSE audio_history
    /\ threads' = [threads EXCEPT ![t].pc = "line52"]
    /\ UNCHANGED <<voice_frames, silence_frames, detectorVars, enhanced,
                   args, ret, pc>>

\* lines 52-55: noise_level from the mean of the window as it stands
ThreadMean(t) ==
    /\ threads[t].pc = "line52"
    /\ threads' = [threads EXCEPT ![t].pc = "line59",
                                  ![t].noise_level = NoiseLevel(audio_history)]
    /\ UNCHANGED <<audioVars, detectorVars, enhanced, args, ret, pc>>

\* lines 59-60 / 65: the counter that `+= 1` is about to increase is read
ThreadLoadCounter(t) ==
    /\ threads[t].pc = "line59"
    /\ threads' = [threads EXCEPT
                     ![t].pc = "store",
                     ![t].loaded = IF AboveVoice(threads[t].level)
                                   THEN voice_frames ELSE silence_frames]
    /\ UNCHANGED <<audioVars, detectorVars, enhanced, args, ret, pc>>

\* lines 60-63 / 65-67: the increased counter is written back, then the
\* other counter and voice_active follow
ThreadStoreCounter(t) ==
    /\ threads[t].pc = "store"
    /\ IF AboveVoice(threads[t].level)
       THEN /\ voice_frames' = threads[t].loaded + 1
            /\ silence_frames' = 0
            /\ threads' = [threads EXCEPT
                             ![t].pc = "line69",
                             ![t].voice_active =
                                 threads[t].loaded + 1 >= VoiceConfirmFrames]
       ELSE /\ silence_frames' = threads[t].loaded + 1
            /\ voice_frames' = IF threads[t].loaded + 1 >= SilenceResetFrames
                               THEN 0 ELSE voice_frames
            /\ threads' = [threads EXCEPT ![t].pc = "line69"]
    /\ UNCHANGED <<audio_history, detectorVars, enhanced, args, ret, pc>>

\* line 69 and lines 462-484 of the handler: the answer of the request
ThreadReturn(t) ==
    /\ threads[t].pc = "line69"
    /\ ret' = [op |-> "process_audio_data", thread |-> t,
               voice_active |-> threads[t].voice_active,
               noise_level |-> threads[t].noise_level,
               is_noisy |-> is_noisy_environment(threads[t].noise_level),
               voice_status |-> get_voice_activity_status(
                                    threads[t].voice_active, threads[t].noise_level)]
    /\ threads' = [threads EXCEPT ![t] = Idle(threads[t].served + 1)]
    /\ UNCHANGED <<audioVars, detectorVars, enhanced, args, pc>>

\* ------------------------------------------------------------------------
\* Initial state: a freshly constructed detector and audio processor
\* ------------------------------------------------------------------------
Init ==
    /\ audio_history = <<>>
    /\ voice_frames = 0
    /\ silence_frames = 0
    /\ blink_history = <<>>
    /\ eye_aspect_ratio_history = <<>>
    /\ head_pose_history = <<>>
    /\ mouth_history = <<>>
    /\ emotion_history = <<>>
    /\ enhanced = FreshEnhanced
    /\ threads = NoThreads
    /\ args = NoCall
    /\ ret = NoCall
    /\ pc = "ready"

\* ------------------------------------------------------------------------
\* Audio stream: chunks arrive one at a time
\* ------------------------------------------------------------------------
NextAudio ==
    \E chunk \in Chunks :
        Len(audio_history) < MaxChunks /\ process_audio_chunk(chunk)

SpecAudio == Init /\ [][NextAudio]_vars

\* ------------------------------------------------------------------------
\* Blink detector driven sample by sample
\* ------------------------------------------------------------------------
EarSamples == {100, 250, 350}

BlinkInputs == {[avg_ear |-> e] : e \in EarSamples} \cup {[eyes_detected |-> 0]}

NextBlink == \E eye_data \in BlinkInputs : detect_blink(eye_data)

SpecBlink == Init /\ [][NextBlink]_vars

\* ------------------------------------------------------------------------
\* Blink rate of a given blink-flag window.  The window is the function's
\* only input (self.blink_history); it is drawn directly, as a caller that
\* fills the deque would leave it: n flags of which k are 1, the ones first,
\* last, or spread evenly.
\* ------------------------------------------------------------------------
FlagWindow(n, k, shape) ==
    [ i \in 1..n |->
        IF shape = "first" THEN (IF i <= k THEN 1 ELSE 0)
        ELSE IF shape = "last" THEN (IF i > n - k THEN 1 ELSE 0)
        ELSE (IF (i * k) \div n > ((i - 1) * k) \div n THEN 1 ELSE 0) ]

WindowLengths == {0, 9, 10, 29, BlinkHistoryLen}

FlagWindows ==
    { FlagWindow(n, k, shape) :
        n \in WindowLengths, k \in 0..BlinkHistoryLen,
        shape \in {"first", "last", "spread"} }

InitBlinkRate ==
    /\ audio_history = <<>>
    /\ voice_frames = 0
    /\ silence_frames = 0
    /\ blink_history \in FlagWindows
    /\ eye_aspect_ratio_history = <<>>
    /\ head_pose_history = <<>>
    /\ mouth_history = <<>>
    /\ emotion_history = <<>>
    /\ enhanced = FreshEnhanced
    /\ threads = NoThreads
    /\ args = NoCall
    /\ ret = NoCall
    /\ pc = "ready"

NextBlinkRate == BlinkRateOfWindow

SpecBlinkRate == InitBlinkRate /\ [][NextBlinkRate]_vars

\* ------------------------------------------------------------------------
\* Yawn detector driven region by region: <<h, w>> of the face region
\* (mar 0.4, mar 0.8, and an empty region)
\* ------------------------------------------------------------------------
FaceSizes == { <<10, 10>>, <<10, 5>>, <<0, 0>> }

NextYawn == \E hw \in FaceSizes : detect_yawn(hw[1], hw[2])

SpecYawn == Init /\ [][NextYawn]_vars

\* ------------------------------------------------------------------------
\* Scorer and classifier on every combination of signals
\* ------------------------------------------------------------------------
Face(emotion) == [emotion |-> emotion]

EmotionInputs ==
    { <<>> } \cup { <<Face(e)>> : e \in {"Happy", "Neutral", "Sad", "Surprise", "Fear"} }

EyeInputs ==
    [ left_open : BOOLEAN, right_open : BOOLEAN,
      avg_ear : {150, 210, 250, 280, 350}, eyes_detected : {0, 1, 2},
      gaze_direction : {"center", "right", "unknown"} ]
    \cup { [left_open |-> TRUE, right_open |-> TRUE, gaze_direction |-> "center"],
           [left_open |-> TRUE, avg_ear |-> 350, eyes_detected |-> 2],
           [right_open |-> TRUE, avg_ear |-> 350, eyes_detected |-> 2,
            gaze_direction |-> "center"] }

PoseInputs ==
    { [pitch |-> p, yaw |-> 0, roll |-> ZeroRoll] : p \in {0, -80, -180, -250, 250} }
    \cup { [pitch |-> 0, yaw |-> y, roll |-> ZeroRoll] : y \in {150, 220, 280, -350} }
    \cup { [roll |-> ZeroRoll] }

BlinkRateInputs == {0, 11, 16}

InitScore ==
    /\ audio_history = <<>>
    /\ voice_frames = 0
    /\ silence_frames = 0
    /\ blink_history = <<>>
    /\ eye_aspect_ratio_history = <<>>
    /\ head_pose_history = <<>>
    /\ mouth_history = <<>>
    /\ emotion_history = <<>>
    /\ enhanced = FreshEnhanced
    /\ threads = NoThreads
    /\ args \in [ emotions_data : EmotionInputs, eyes_data : EyeInputs,
                  head_pose : PoseInputs, blink_rate : BlinkRateInputs,
                  yawn_detected : BOOLEAN ]
    /\ ret = NoCall
    /\ pc = "ready"

NextScore == ScoreAndClassify

SpecScore == InitScore /\ [][NextScore]_vars

\* ------------------------------------------------------------------------
\* Eye states compared at the good defaults
\* ------------------------------------------------------------------------
\* eye boxes in a face region 100 wide: aspect ratios 0.10, 0.25 and 0.35,
\* left or right of the face centre, centred vertically
EyeBoxes == { [x |-> x, y |-> 43, w |-> 20, h |-> h] : x \in {10, 60}, h \in {4, 10, 14} }

EyeObservations ==
    { <<>> } \cup { <<a>> : a \in EyeBoxes } \cup { <<a, b>> : a, b \in EyeBoxes }

BothClosed(e) == ~e.left_open /\ ~e.right_open

OneOpen(e) == e.left_open # e.right_open

BothOpen(e) == e.left_open /\ e.right_open /\ e.eyes_detected >= 2

InitEyeStates ==
    /\ audio_history = <<>>
    /\ voice_frames = 0
    /\ silence_frames = 0
    /\ blink_history = <<>>
    /\ eye_aspect_ratio_history = <<>>
    /\ head_pose_history = <<>>
    /\ mouth_history = <<>>
    /\ emotion_history = <<>>
    /\ enhanced = FreshEnhanced
    /\ threads = NoThreads
    /\ args \in [ w : {100},
                  closed : {o \in EyeObservations : BothClosed(detect_eyes_detailed(100, o))},
                  one : {o \in EyeObservations : OneOpen(detect_eyes_detailed(100, o))},
                  both : {o \in EyeObservations : BothOpen(detect_eyes_detailed(100, o))} ]
    /\ ret = NoCall
    /\ pc = "ready"

NextEyeStates == ScoreEyeStates

SpecEyeStates == InitEyeStates /\ [][NextEyeStates]_vars

\* ------------------------------------------------------------------------
\* Eye aspect ratios of any geometry
\* ------------------------------------------------------------------------
Point(x, y) == [x |-> x, y |-> y]

\* six landmarks of an eye `width` wide whose lids are 2*h1 and 2*h2 apart
EyeLandmarks(width, h1, h2) ==
    << Point(0, 0), Point(1, h1), Point(2, h2),
       Point(width, 0), Point(2, -h2), Point(1, -h1) >>

LandmarkInputs ==
    { EyeLandmarks(width, h1, h2) :
        width \in {0, 4, 10, 20}, h1 \in {0, 1, 2, 4}, h2 \in {0, 1, 2, 4} }
    \cup { << Point(0, 0), Point(0, 0), Point(3, 0),
              Point(6, 8), Point(0, 4), Point(0, 5) >>,
           << Point(0, 0), Point(1, 2), Point(4, 0) >>,
           << >> }

\* eye boxes of any shape: flat, square, tall, and of no width or height
AnyEyeBoxes ==
    { [x |-> x, y |-> 43, w |-> w, h |-> h] :
        x \in {10, 60}, w \in {0, 10, 20}, h \in {0, 2, 7, 10, 40} }

BoxInputs ==
    { <<>>, CascadeRaised } \cup { <<a>> : a \in AnyEyeBoxes }
    \cup { <<a, b>> : a, b \in AnyEyeBoxes }

InitEar ==
    /\ audio_history = <<>>
    /\ voice_frames = 0
    /\ silence_frames = 0
    /\ blink_history = <<>>
    /\ eye_aspect_ratio_history = <<>>
    /\ head_pose_history = <<>>
    /\ mouth_history = <<>>
    /\ emotion_history = <<>>
    /\ enhanced = FreshEnhanced
    /\ threads = NoThreads
    /\ args \in { [eye_points |-> p] : p \in LandmarkInputs }
                \cup { [w |-> 100, eyes |-> e] : e \in BoxInputs }
    /\ ret = NoCall
    /\ pc = "ready"

NextEar == EarOfLandmarks \/ EyesOfBoxes

SpecEar == InitEar /\ [][NextEar]_vars

\* ------------------------------------------------------------------------
\* Frames through the whole pipeline
\* ------------------------------------------------------------------------
EyeBox(x, h) == [x |-> x, y |-> 43, w |-> 20, h |-> h]

\* both eyes open and centred, square region
FaceOpen ==
    [w |-> 100, h |-> 100, emotion |-> "Happy",
     eyes |-> <<EyeBox(60, 14), EyeBox(20, 14)>>]

\* both eyes found but shut
FaceShut ==
    [w |-> 100, h |-> 100, emotion |-> "Neutral",
     eyes |-> <<EyeBox(20, 4), EyeBox(60, 4)>>]

\* no eye found, tall region (mouth ratio 0.8)
FaceTall ==
    [w |-> 50, h |-> 100, emotion |-> "Sad", eyes |-> <<>>]

\* eyes open, shifted to the right of the region
FaceTurned ==
    [w |-> 100, h |-> 100, emotion |-> "Surprise",
     eyes |-> <<EyeBox(50, 14), EyeBox(80, 14)>>]

\* a face entry whose region is empty (bbox (0, 0, 0, 0), the default taken
\* for an entry without a bbox); the eye cascade either finds nothing in it
\* or raises
FaceNoRegion(eyes) ==
    [w |-> 0, h |-> 0, emotion |-> "Neutral", eyes |-> eyes]

Frames ==
    { [faces |-> <<>>], [faces |-> <<FaceOpen>>], [faces |-> <<FaceShut>>],
      [faces |-> <<FaceTall>>], [faces |-> <<FaceTurned, FaceOpen>>],
      [faces |-> <<FaceTall, FaceOpen>>],
      [faces |-> <<FaceNoRegion(<<>>)>>],
      [faces |-> <<FaceNoRegion(CascadeRaised)>>] }

NextFrame ==
    \E frame \in Frames :
        Len(emotion_history) < MaxFrames /\ detect_emotion_and_attention(frame)

SpecFrame == Init /\ [][NextFrame]_vars

\* ------------------------------------------------------------------------
\* A long session: frames and audio chunks interleaved until every window
\* has been full and has evicted.  The camera first shows FaceTall and then
\* FaceOpen, FaceShut and FaceTurned in rotation (the next face follows from
\* the last emotion recorded), with frames without a face in between; the
\* microphone first delivers a faint chunk, then two loud chunks after every
\* run of more than SilenceResetFrames silent ones, with empty chunks in
\* between.
\* ------------------------------------------------------------------------
FaceAfter(emotion) ==
    IF emotion = "Happy" THEN FaceShut
    ELSE IF emotion = "Neutral" THEN FaceTurned
    ELSE FaceOpen

StreamFrames ==
    { [faces |-> <<>>],
      IF emotion_history = <<>> THEN [faces |-> <<FaceTall>>]
      ELSE [faces |-> <<FaceAfter(emotion_history[Len(emotion_history)])>>] }

StreamChunks ==
    { <<>>,
      IF audio_history = <<>> THEN <<400>>
      ELSE IF silence_frames > SilenceResetFrames \/ voice_frames = 1
           THEN <<1000, -1000>>
      ELSE <<0, 0>> }

NextStream ==
    \/ \E frame \in StreamFrames : detect_emotion_and_attention(frame)
    \/ \E chunk \in StreamChunks : process_audio_chunk(chunk)

SpecStream == Init /\ [][NextStream]_vars

\* ------------------------------------------------------------------------
\* Two monitoring sessions posting frames and audio chunks to the server,
\* one request at a time
\* ------------------------------------------------------------------------
Sessions == {"A", "B"}

SessionChunks == { <<>>, <<0, 0>>, <<1000, -1000>> }

SessionFrames == { [faces |-> <<>>], [faces |-> <<FaceOpen>>], [faces |-> <<FaceShut>>] }

NextSessions ==
    \E session \in Sessions :
        \/ \E chunk \in SessionChunks :
               /\ Len(audio_history) < MaxSessionChunks
               /\ process_audio_data(session, chunk)
        \/ \E frame \in SessionFrames :
               /\ Len(emotion_history) < MaxSessionFrames
               /\ process_emotion_data(session, frame)

SpecSessions == Init /\ [][NextSessions]_vars

\* ------------------------------------------------------------------------
\* EnhancedEmotionDetector over a session: the student is first away (frames
\* without a face), then sits with a Neutral face, then shows anything; a
\* student who was there from the first frame may also leave at the end.
\* ------------------------------------------------------------------------
EnhancedFace(w, emotion, yaw, open, gaze) ==
    [ w |-> w, h |-> w, emotion |-> emotion,
      head_pose |-> [pitch |-> 0, yaw |-> yaw, roll |-> ZeroRoll],
      eye_gaze |-> [left_eye_open |-> open, right_eye_open |-> open,
                    gaze_direction |-> gaze] ]

NoFaceFrame == [faces |-> <<>>]

NeutralFrame == [faces |-> <<EnhancedFace(100, "Neutral", 0, TRUE, "center")>>]

\* frames of any other kind: one face, a small face before a large one, two
\* faces of the same size
OtherFrames ==
    { [faces |-> <<EnhancedFace(100, "Happy", 0, TRUE, "center")>>],
      [faces |-> <<EnhancedFace(100, "Sad", 350, FALSE, "left")>>],
      [faces |-> <<EnhancedFace(60, "Happy", 0, TRUE, "center"),
                   EnhancedFace(100, "Angry", 0, FALSE, "right")>>],
      [faces |-> <<EnhancedFace(100, "Surprise", 0, TRUE, "center"),
                   EnhancedFace(100, "Fear", 0, TRUE, "center")>>] }

\* the frames the session may show next, given what the detector has seen
EnhancedStream ==
    LET seen == Len(enhanced.face_presence_history)
        faces == Len(enhanced.emotion_history)
        neutral == Cardinality({i \in 1..faces : enhanced.emotion_history[i] = "Neutral"
                                    /\ \A j \in 1..i : enhanced.emotion_history[j] = "Neutral"})
        away == seen > 0 /\ ~enhanced.face_presence_history[seen]
    IN  (IF faces = 0 /\ seen < MaxAbsentFrames THEN {NoFaceFrame} ELSE {})
        \cup (IF neutral = faces /\ (~away \/ faces = 0) /\ faces < MaxNeutralFrames
              THEN {NeutralFrame} ELSE {})
        \cup (IF faces - neutral < MaxOtherFrames /\ (~away \/ faces = 0)
              THEN OtherFrames ELSE {})
        \cup (IF faces > 0 /\ seen - faces < MaxLeftFrames
                 /\ (away \/ seen = faces)
              THEN {NoFaceFrame} ELSE {})

NextEnhanced ==
    \E frame \in EnhancedStream : Enhanced_detect_emotion_and_attention(frame)

SpecEnhanced == Init /\ [][NextEnhanced]_vars

\* ------------------------------------------------------------------------
\* Voice status: the label of any flag and noise level, and the labels of the
\* audio requests of one session.  The noise levels lie on either side of
\* the two thresholds (0.005 is 1638.4 and 0.08 is 26214.4 in 1/LevelScale),
\* at both ends of [0, 1] and outside it.
\* ------------------------------------------------------------------------
NoiseLevels ==
    {-1, 0, 1, 1638, 1639, 8000, 26214, 26215, 100000, LevelScale, LevelScale + 1}

NextVoiceStatus ==
    \/ \E voice_active \in BOOLEAN, noise_level \in NoiseLevels :
           VoiceStatusOf(voice_active, noise_level)
    \/ \E chunk \in Chunks :
           /\ Len(audio_history) < MaxSessionChunks
           /\ process_audio_data("A", chunk)

SpecVoiceStatus == Init /\ [][NextVoiceStatus]_vars

\* ------------------------------------------------------------------------
\* Two server threads handling POST /api/audio_data on the one module-level
\* audio_processor: the interpreter may switch threads between any two of
\* the statements of process_audio_chunk, and between the read and the write
\* of a `+= 1`
\* ------------------------------------------------------------------------
ThreadChunks == { <<1000, -1000>>, <<0, 0>> }

NextThreads ==
    \E t \in Threads :
        \/ \E chunk \in ThreadChunks :
               threads[t].served < MaxThreadCalls /\ ThreadReceive(t, chunk)
        \/ ThreadAppend(t)
        \/ ThreadEvict(t)
        \/ ThreadMean(t)
        \/ ThreadLoadCounter(t)
        \/ ThreadStoreCounter(t)
        \/ ThreadReturn(t)

SpecThreads == Init /\ [][NextThreads]_vars

\* ------------------------------------------------------------------------
\* combined_level of a 16-bit chunk and of the same chunk with every sample
\* multiplied by a factor, each computed as process_audio_chunk computes it
\* on a fresh AudioProcessor
\* ------------------------------------------------------------------------
LevelSamples == {-400, -1, 0, 1, 2}

LevelChunks == UNION { [1..n -> LevelSamples] : n \in 1..MaxLevelLen }

Factors == {1, 2, 3, 50}

Scaled(chunk, c) == [i \in 1..Len(chunk) |-> c * chunk[i]]

InitLevel ==
    /\ audio_history = <<>>
    /\ voice_frames = 0
    /\ silence_frames = 0
    /\ blink_history = <<>>
    /\ eye_aspect_ratio_history = <<>>
    /\ head_pose_history = <<>>
    /\ mouth_history = <<>>
    /\ emotion_history = <<>>
    /\ enhanced = FreshEnhanced
    /\ threads = NoThreads
    /\ args \in { [chunk |-> chunk, factor |-> c] :
                     chunk \in LevelChunks, c \in Factors }
    /\ ret = NoCall
    /\ pc = "ready"

\* the third value returned by process_audio_chunk for the chunk and for
\* its multiple
LevelOfChunkAndMultiple ==
    /\ pc = "ready"
    /\ ret' = [op |-> "combined_level",
               level |-> CombinedLevel(args.chunk),
               scaled |-> CombinedLevel(Scaled(args.chunk, args.factor))]
    /\ pc' = "done"
    /\ UNCHANGED <<audioVars, detectorVars, enhanced, threads, args>>

NextLevel == LevelOfChunkAndMultiple

SpecLevel == InitLevel /\ [][NextLevel]_vars

\* ========================================================================
\* Properties
\* ========================================================================

\* the number of trailing below-voice-threshold levels of a level window
TrailingSilentRun(h) ==
    LET n == Len(h)
    IN  CHOOSE k \in 0..n :
            /\ \A i \in (n - k + 1)..n : ~AboveVoice(h[i])
            /\ k = n \/ AboveVoice(h[n - k])

\* the number of trailing above-threshold samples of a mouth-ratio window
TrailingOpenRun(h) ==
    LET n == Len(h)
    IN  CHOOSE k \in 0..n :
            /\ \A i \in (n - k + 1)..n : h[i] > YAWN_THRESHOLD
            /\ k = n \/ ~(h[n - k] > YAWN_THRESHOLD)

\* the last call processed an audio chunk (it was not missing or empty)
ChunkProcessed == ret.op = "process_audio_chunk" /\ ret.processed

\* C1: detect_blink, called once per frame on a fresh detector, records a
\* blink on exactly the calls whose sample and the two samples before it are
\* below the closed threshold while the sample before those was above it
\* (for 0.35 x4, 0.10 x3: on the seventh call only).
C1_BlinkOnFallingEdge ==
    LET h == eye_aspect_ratio_history
    IN  \A i \in 1..Len(blink_history) :
            (blink_history[i] = 1) <=>
                /\ i >= 4
                /\ h[i] < EAR_THRESHOLD
                /\ h[i - 1] < EAR_THRESHOLD
                /\ h[i - 2] < EAR_THRESHOLD
                /\ h[i - 3] > EAR_THRESHOLD

\* C2 (as stated): voice_active is returned True only for a chunk that is
\* above the voice threshold and whose immediately preceding chunk was above
\* it too.
C2_TwoConsecutiveAbove ==
    LET n == Len(audio_history)
    IN  (ChunkProcessed /\ ret.voice_active) =>
            /\ n >= 2
            /\ AboveVoice(audio_history[n])
            /\ AboveVoice(audio_history[n - 1])

\* C2 (amended): voice_active is returned True only for a chunk that is above
\* the voice threshold and that has another above-threshold chunk among the
\* five processed chunks before it; the two need not be adjacent.
C2_TwoAboveWithinReset ==
    LET n == Len(audio_history)
    IN  (ChunkProcessed /\ ret.voice_active) =>
            /\ AboveVoice(audio_history[n])
            /\ \E j \in 1..(n - 1) :
                   /\ n - j <= SilenceResetFrames
                   /\ AboveVoice(audio_history[j])

\* C2 witness: above, below, above answers True on its third chunk
C2_Witness ==
    LET n == Len(audio_history)
    IN  /\ ChunkProcessed
        /\ ret.voice_active
        /\ n >= 3
        /\ ~AboveVoice(audio_history[n - 1])
        /\ AboveVoice(audio_history[n - 2])

\* C3: voice_frames goes back to 0 only on a below-threshold chunk that is at
\* least the fifth consecutive below-threshold chunk; a below-threshold chunk
\* that is not leaves voice_frames as it was; an above-threshold chunk sets
\* silence_frames to 0.
C3_ResetOnlyAfterFiveSilent ==
    [][ LET h == audio_history'
            n == Len(h)
        IN  n = Len(audio_history) + 1 =>
              /\ (voice_frames # 0 /\ voice_frames' = 0) =>
                     (~AboveVoice(h[n]) /\ TrailingSilentRun(h) >= 5)
              /\ (~AboveVoice(h[n]) /\ TrailingSilentRun(h) < 5) =>
                     voice_frames' = voice_frames
              /\ AboveVoice(h[n]) => silence_frames' = 0
      ]_vars

\* C3 witness: the active counter was reset by a fifth silent chunk
C3_Witness ==
    /\ voice_frames = 0
    /\ silence_frames = 5
    /\ \E i \in 1..Len(audio_history) : AboveVoice(audio_history[i])

\* the arguments of the scoring call carry every key the scorer reads
WellFormedArgs ==
    /\ Has(args, "eyes_data")
    /\ \A k \in {"left_open", "right_open", "avg_ear", "eyes_detected",
                 "gaze_direction"} : Has(args.eyes_data, k)
    /\ Has(args.head_pose, "yaw")
    /\ Has(args.head_pose, "pitch")

Scored == pc = "done" /\ ret.op = "score"

ArgsRawScore ==
    RawScore(args.emotions_data, args.eyes_data, args.head_pose,
             args.blink_rate, args.yawn_detected)

\* C4: for every combination of inputs the returned score s has 0 <= s <= 100.
C4_ScoreInRange ==
    Scored => (0 <= ret.attention_score /\ ret.attention_score <= 100)

\* C4 witness: the raw sum left the range and was brought back
C4_Witness ==
    /\ Scored
    /\ WellFormedArgs
    /\ ArgsRawScore > 100
    /\ ret.attention_score = 100

\* the eyes-closed condition of the classifier, as the specification words it
ClosedCondition(e) ==
    \/ ~e.left_open /\ ~e.right_open
    \/ e.eyes_detected < 2 /\ e.avg_ear < 250

\* C6: whenever both eyes are reported closed, or fewer than two eyes were
\* located and the average EAR is below the closed threshold, the status is
\* "Distracted (Eyes Closed)" for every score, head pose and yawn flag.
C6_EyesClosedFirst ==
    (Scored /\ WellFormedArgs /\ ClosedCondition(args.eyes_data)) =>
        ret.status = "Distracted (Eyes Closed)"

\* C6 witness: eyes closed by the second test, with a score above 75, a yawn
\* and the head turned away
C6_Witness ==
    /\ Scored
    /\ WellFormedArgs
    /\ ClosedCondition(args.eyes_data)
    /\ args.eyes_data.left_open
    /\ ret.attention_score > 75
    /\ args.yawn_detected
    /\ ret.status = "Distracted (Eyes Closed)"

\* C7: detect_yawn declares a yawn on a call exactly when the call's sample
\* completes a run of at least YAWN_CONSEC_FRAMES consecutive samples above
\* the MAR threshold (so never on a run of N-1, and on the N-th).
C7_YawnAfterNSustained ==
    ret.op = "detect_yawn" =>
        (ret.yawn <=> (ret.sampled /\ TrailingOpenRun(mouth_history) >= 10))

\* C7 witness: the tenth consecutive open-mouth frame after a closed one
C7_Witness ==
    /\ ret.op = "detect_yawn"
    /\ ret.yawn
    /\ Len(mouth_history) = 11
    /\ TrailingOpenRun(mouth_history) = 10

\* end-to-end scenario 2: both eyes open with EAR 0.35, two eyes located, gaze
\* center, yaw 0, pitch 0, blink rate 0, no yawn, Happy
Scenario2 ==
    /\ args.emotions_data = <<Face("Happy")>>
    /\ args.eyes_data = [left_open |-> TRUE, right_open |-> TRUE, avg_ear |-> 350,
                         eyes_detected |-> 2, gaze_direction |-> "center"]
    /\ args.head_pose = ZeroPose
    /\ args.blink_rate = 0
    /\ args.yawn_detected = FALSE

\* C9: in scenario 2 the raw sum is 130, the score is 100 after clamping and
\* the status is "Attentive".
C9_Scenario2 ==
    (Scored /\ Scenario2) =>
        /\ ArgsRawScore = 130
        /\ ret.attention_score = 100
        /\ ret.status = "Attentive"

\* C9 witness: scenario 2 has been scored
C9_Witness == Scored /\ Scenario2

\* C10: with a face found and both eyes closed the score is at most 0
\* whatever the other signals are, and the status is
\* "Distracted (Eyes Closed)".
C10_EyesClosedZeroScore ==
    ( /\ Scored
      /\ WellFormedArgs
      /\ args.emotions_data # <<>>
      /\ ~args.eyes_data.left_open
      /\ ~args.eyes_data.right_open ) =>
        /\ ret.attention_score <= 0
        /\ ret.status = "Distracted (Eyes Closed)"

EyeStatesScored == pc = "done" /\ ret.op = "eye_states"

\* C5 (as stated): at the good defaults the score is strictly increasing
\* from both eyes closed to one eye open to both eyes open.
C5_StrictlyIncreasing ==
    EyeStatesScored => (ret.closed < ret.one /\ ret.one < ret.both)

\* C5 (amended): at the good defaults the score of both eyes closed is
\* strictly below the score of one eye open, which is at most the score of
\* both eyes open with two eyes located.
C5_NonDecreasing ==
    EyeStatesScored => (ret.closed < ret.one /\ ret.one <= ret.both)

\* C5 witness: one eye open and both eyes open score the same, at the ceiling
C5_Witness ==
    /\ EyeStatesScored
    /\ ret.closed < ret.one
    /\ ret.one = 100
    /\ ret.both = 100

FrameProcessed == ret.op = "detect_emotion_and_attention"

\* C8: a frame without a face returns face_detected false, score 0, status
\* "Absent / Disengaged", blink rate 0 and no yawn, whatever the history
\* windows hold.
C8_NoFaceSnapshot ==
    (FrameProcessed /\ args.frame.faces = <<>>) =>
        /\ ret.data.face_detected = FALSE
        /\ ret.data.attention_score = 0
        /\ ret.data.status = "Absent / Disengaged"
        /\ ret.data.blink_rate = 0
        /\ ret.data.yawn_detected = FALSE

\* C8 witness: a frame without a face arrives after frames with a face
C8_Witness ==
    /\ FrameProcessed
    /\ args.frame.faces = <<>>
    /\ ~ret.data.face_detected
    /\ Len(eye_aspect_ratio_history) >= 2
    /\ Len(mouth_history) >= 2
    /\ Len(emotion_history) >= 2

\* the number of 1 flags of a blink-flag window
OnesOf(window) == Cardinality({ i \in 1..Len(window) : window[i] = 1 })

BlinkRateComputed == pc = "done" /\ ret.op = "calculate_blink_rate"

\* C11: for every k in 0..30, when the blink-flag window holds 30 samples of
\* which exactly k are 1, calculate_blink_rate returns k/30 (k thirtieths).
C11_RateIsOnesOverThirty ==
    \A k \in 0..30 :
        ( /\ BlinkRateComputed
          /\ Len(blink_history) = 30
          /\ OnesOf(blink_history) = k ) => ret.rate = k

\* C11 witness: a full window whose ones all lie in its older half
C11_Witness ==
    /\ BlinkRateComputed
    /\ Len(blink_history) = 30
    /\ OnesOf(blink_history) = 7
    /\ \A i \in 16..30 : blink_history[i] = 0
    /\ ret.rate = 7

\* an eye aspect ratio inside [0, 0.4]
EarInRange(ear) == 0 <= ear /\ ear <= 400

LandmarkEarComputed == pc = "done" /\ ret.op = "calculate_eye_aspect_ratio"

BoxEarsComputed == pc = "done" /\ ret.op = "detect_eyes_detailed"

\* C12: every eye aspect ratio the detector computes lies in
\* [0, 0.4]: the result of calculate_eye_aspect_ratio on any landmarks, and
\* left_ear, right_ear and avg_ear of detect_eyes_detailed on any eye boxes
\* (zero, one or two eyes, and the error path).
C12_EveryEarInRange ==
    /\ LandmarkEarComputed => EarInRange(ret.ear)
    /\ BoxEarsComputed =>
           /\ EarInRange(ret.eyes_data.left_ear)
           /\ EarInRange(ret.eyes_data.right_ear)
           /\ EarInRange(ret.eyes_data.avg_ear)

\* window `after` is window `before` with k more samples pushed at its end,
\* the oldest samples evicted first once the capacity is reached
PushedOnto(before, after, k, cap) ==
    /\ Len(after) = Min(Len(before) + k, cap)
    /\ \A i \in 1..(Len(after) - k) :
           after[i] = before[i + (Len(before) + k - Len(after))]

\* the last call was a frame with a face / a chunk with samples
FaceFrameCall == Has(args, "frame") /\ args.frame.faces # <<>>

ChunkCall == Has(args, "chunk") /\ args.chunk # <<>>

\* C13: after any sequence of frame and audio calls every history window
\* (blink flags, EAR values, mouth ratios, head poses, emotions, audio levels)
\* holds at most its capacity, and every call leaves each window holding the
\* most recent pushed samples in arrival order: what it held before, minus
\* the oldest samples when full, followed by the samples of the call.
C13_WindowsAreFifo ==
    [][ /\ \E k \in 0..1 : PushedOnto(blink_history, blink_history', k, 30)
        /\ \E k \in 0..1 : PushedOnto(eye_aspect_ratio_history,
                                      eye_aspect_ratio_history', k, 30)
        /\ \E k \in 0..1 : PushedOnto(mouth_history, mouth_history', k, 30)
        /\ \E k \in 0..2 : PushedOnto(head_pose_history, head_pose_history', k, 60)
        /\ PushedOnto(emotion_history, emotion_history',
                      IF FaceFrameCall' THEN 1 ELSE 0, 90)
        /\ PushedOnto(audio_history, audio_history',
                      IF ChunkCall' THEN 1 ELSE 0, 30)
        /\ ChunkCall' => audio_history'[Len(audio_history')] = ret'.level
        /\ FaceFrameCall' =>
               /\ emotion_history'[Len(emotion_history')] =
                      args'.frame.faces[1].emotion
               /\ head_pose_history'[Len(head_pose_history')] = ret'.data.head_pose
      ]_vars

\* C13 witness: every window is full and the first frame's and the first
\* chunk's samples have been evicted
C13_Witness ==
    /\ Len(blink_history) = 30
    /\ Len(eye_aspect_ratio_history) = 30
    /\ Len(mouth_history) = 30
    /\ Len(head_pose_history) = 60
    /\ Len(emotion_history) = 90
    /\ Len(audio_history) = 30
    /\ \A i \in 1..90 : emotion_history[i] # "Sad"
    /\ \A i \in 1..30 : audio_history[i] # CombinedLevel(<<400>>)

\* C14: each monitoring session owns its own detector and audio-processor
\* state: a frame or an audio chunk submitted by one session never changes
\* the history windows or the voice counters used for another session.
C14_SessionsOwnTheirState ==
    [][ \A session \in Sessions :
            (Has(args', "session") /\ args'.session # session) =>
                SessionState(session)' = SessionState(session)
      ]_vars

\* C15: when scoring raises an exception (for example a missing key in the
\* eye or head-pose record) calculate_attention_score returns the neutral
\* score 50, and when classifying raises determine_attention_status returns
\* "Unknown"; both calls return (neither propagates the exception).
C15_NeutralOnException ==
    Scored =>
        /\ ScoreRaises(args.emotions_data, args.eyes_data, args.head_pose) =>
               ret.attention_score = 50
        /\ StatusRaises(args.eyes_data, args.head_pose, args.yawn_detected) =>
               ret.status = "Unknown"

\* C15 witness: the eye record lacks right_open and the head-pose record lacks
\* yaw and pitch; both calls have returned
C15_Witness ==
    /\ Scored
    /\ ~Has(args.eyes_data, "right_open")
    /\ ~Has(args.head_pose, "yaw")
    /\ args.emotions_data # <<>>
    /\ ~args.yawn_detected
    /\ ret.attention_score = 50
    /\ ret.status = "Unknown"

\* C16: given a missing or empty audio chunk, process_audio_chunk returns the
\* silent default (voice_active False, noise_level 0.0, level 0.0), which
\* get_voice_activity_status labels "Silent", and leaves voice_frames,
\* silence_frames and the level window unchanged.
C16_EmptyChunkIsSilent ==
    [][ (ret'.op = "process_audio_chunk" /\ args'.chunk = <<>>) =>
            /\ ret'.voice_active = FALSE
            /\ ret'.noise_level = 0
            /\ ret'.level = 0
            /\ get_voice_activity_status(ret'.voice_active, ret'.noise_level) = "Silent"
            /\ voice_frames' = voice_frames
            /\ silence_frames' = silence_frames
            /\ audio_history' = audio_history
      ]_vars

\* C16 witness: an empty chunk arrives while the speaker is confirmed active
\* and the window holds loud levels
C16_Witness ==
    /\ ret.op = "process_audio_chunk"
    /\ args.chunk = <<>>
    /\ ~ret.processed
    /\ voice_frames >= 2
    /\ Len(audio_history) >= 2
    /\ NoiseLevel(audio_history) > 0

\* a window has received a sample in the step
Received(before, after) == Len(after) > Len(before)

RuleListScore(threshold) ==
    LET e == args.eyes_data
        p == args.head_pose
        face == args.emotions_data # <<>>
        emotion == IF face THEN args.emotions_data[1].emotion ELSE "none"
        yaw_abs == IF p.yaw < 0 THEN -p.yaw ELSE p.yaw
        s1 == 50 + (IF face THEN 20 ELSE 0)
        s2 == IF e.left_open /\ e.right_open /\ e.avg_ear > threshold
                 /\ e.eyes_detected >= 2
              THEN s1 + 20
              ELSE IF (e.left_open \/ e.right_open) /\ 10 * e.avg_ear > 8 * threshold
              THEN s1 + 5
              ELSE IF s1 - 50 < 0 THEN 0 ELSE s1 - 50
        s3 == s2 + (IF e.gaze_direction = "center" THEN 15
                    ELSE IF e.gaze_direction \in {"left", "right"} THEN -10
                    ELSE 0)
        s4 == s3 + (IF yaw_abs < 100 /\ p.pitch > -50 /\ p.pitch < 100 THEN 15
                    ELSE IF yaw_abs < 200 /\ p.pitch > -100 /\ p.pitch < 150 THEN 5
                    ELSE IF yaw_abs > 250 \/ p.pitch < -150 \/ p.pitch > 200 THEN -20
                    ELSE 0)
        s5 == s4 + (IF args.blink_rate > 15 THEN -15
                    ELSE IF 10 * args.blink_rate > 105 THEN -5
                    ELSE 0)
        s6 == s5 + (IF args.yawn_detected THEN -15 ELSE 0)
        s7 == s6 + (IF emotion = "Happy" THEN 10
                    ELSE IF emotion = "Neutral" THEN 5
                    ELSE IF emotion \in {"Sad", "Angry"} THEN -5
                    ELSE IF emotion = "Surprise" THEN 3
                    ELSE 0)
    IN  IF s7 < 0 THEN 0 ELSE IF s7 > 100 THEN 100 ELSE s7

\* C18 (as stated): for every input calculate_attention_score equals the
\* additive rule list whose eye rule uses the open threshold that decides the
\* left_open / right_open flags (0.25 * 1.2 = 0.3).
C18_RuleListAtOpenThreshold ==
    (Scored /\ WellFormedArgs) => ret.attention_score = RuleListScore(300)

\* C18 (amended): for every input calculate_attention_score equals the
\* additive rule list whose eye rule uses EAR_THRESHOLD (0.25, the closed
\* threshold), which is the open threshold of the flags divided by 1.2.
C18_RuleListAtEarThreshold ==
    (Scored /\ WellFormedArgs) => ret.attention_score = RuleListScore(250)

\* C18 witness: both eyes open with an average EAR between the two
\* thresholds earn the +20 of the eye rule
C18_Witness ==
    /\ Scored
    /\ WellFormedArgs
    /\ args.eyes_data.left_open
    /\ args.eyes_data.right_open
    /\ args.eyes_data.eyes_detected = 2
    /\ args.eyes_data.avg_ear = 280
    /\ ret.attention_score = RuleListScore(250)
    /\ ret.attention_score = RuleListScore(300) + 15

\* the decision list of the classifier applied to the scored arguments, with
\* `score` handed to the score bands
StatusByList(score) ==
    LET e == args.eyes_data
        p == args.head_pose
    IN  IF (~e.left_open /\ ~e.right_open) \/ (e.eyes_detected < 2 /\ e.avg_ear < 250)
        THEN "Distracted (Eyes Closed)"
        ELSE IF args.yawn_detected THEN "Drowsy / Fatigued"
        ELSE IF p.yaw > 300 \/ p.yaw < -300 \/ p.pitch < -200
        THEN "Inattentive (Looking Away)"
        ELSE IF score >= 75 THEN "Attentive"
        ELSE IF score >= 50 THEN "Partially Attentive"
        ELSE IF score >= 30 THEN "Distracted"
        ELSE "Inattentive"

\* no rule before the score bands matches the scored arguments
NoEarlierRule ==
    StatusByList(0) = "Inattentive"

\* C19 (as stated): determine_attention_status is a first-match-wins list:
\* eyes closed, else yawn, else looking away, else the bands of the score
\* (>= 75, >= 50, >= 30, otherwise).
C19_FirstMatchOnScore ==
    (Scored /\ WellFormedArgs) => ret.status = StatusByList(ret.attention_score)

\* C19 (amended): determine_attention_status is a first-match-wins list: eyes
\* closed, else yawn, else looking away, else the bands of the working score,
\* which is 25 when an eye is closed and the score is above 30 and is the
\* score otherwise.  In particular a yawn with the head turned more than 30
\* degrees and eyes open yields "Drowsy / Fatigued".
C19_FirstMatchOnWorkingScore ==
    (Scored /\ WellFormedArgs) =>
        ret.status =
            StatusByList(
                IF (~args.eyes_data.left_open \/ ~args.eyes_data.right_open)
                   /\ ret.attention_score > 30
                THEN 25 ELSE ret.attention_score)

\* C19 witness: a yawn with the head turned 35 degrees and both eyes open
C19_Witness ==
    /\ Scored
    /\ WellFormedArgs
    /\ args.yawn_detected
    /\ args.head_pose.yaw = -350
    /\ args.eyes_data.left_open
    /\ args.eyes_data.right_open
    /\ args.eyes_data.eyes_detected = 2
    /\ ret.status = "Drowsy / Fatigued"

\* C20: when exactly one eye is open and no earlier rule (eyes closed, yawn,
\* looking away) matches, the status is "Inattentive" for every incoming
\* score, never "Attentive", "Partially Attentive" or "Distracted".
C20_OneEyeIsInattentive ==
    ( /\ Scored
      /\ WellFormedArgs
      /\ args.eyes_data.left_open # args.eyes_data.right_open
      /\ NoEarlierRule ) => ret.status = "Inattentive"

EnhancedCalled == ret.op = "Enhanced.detect_emotion_and_attention"

\* C21: EnhancedEmotionDetector.determine_attention_status, as called at the
\* end of a frame, answers "Absent / Disengaged" when fewer than 10% of the
\* last 30 presence samples have a face; else "Low Engagement" when at least
\* 80% (exactly 80% included) of the last 300 emotion samples are Neutral;
\* else by the score bands >= 80 "Attentive", >= 50 "Partially Attentive",
\* >= 20 "Distracted", otherwise "Inattentive".
C21_EnhancedStatusList ==
    EnhancedCalled =>
        LET faces == LastN(enhanced.face_presence_history, 30)
            present == Cardinality({i \in 1..Len(faces) : faces[i]})
            emotions == LastN(enhanced.emotion_history, 300)
            neutral == Cardinality({i \in 1..Len(emotions) : emotions[i] = "Neutral"})
            score == ret.data.attention_score
        IN  ret.data.status =
                IF 100 * present < 10 * Len(faces) THEN "Absent / Disengaged"
                ELSE IF emotions # <<>> /\ 100 * neutral >= 80 * Len(emotions)
                THEN "Low Engagement"
                ELSE IF score >= 80000 THEN "Attentive"
                ELSE IF score >= 50000 THEN "Partially Attentive"
                ELSE IF score >= 20000 THEN "Distracted"
                ELSE "Inattentive"

\* C22: a frame without a detected face short-circuits to the no-face result:
\* EnhancedEmotionDetector.detect_emotion_and_attention returns attention
\* score 0 and status "Absent / Disengaged" for it after any history, the
\* very first frame included.
C22_EnhancedNoFaceResult ==
    (EnhancedCalled /\ args.frame.faces = <<>>) =>
        /\ ret.data.attention_score = 0
        /\ ret.data.status = "Absent / Disengaged"

\* the label the specification gives a flag and a noise level (in
\* 1/LevelScale): 0.08 is 2/25 and 0.005 is 1/200
StatusLabel(voice_active, noise_level) ==
    IF voice_active THEN "Speaking"
    ELSE IF 25 * noise_level > 2 * LevelScale THEN "Noisy Environment"
    ELSE IF 200 * noise_level < LevelScale THEN "Silent"
    ELSE "Background Noise"

\* C23: for every voice_active flag and noise level get_voice_activity_status
\* returns "Speaking" if voice_active; else "Noisy Environment" if the level
\* exceeds 0.08; else "Silent" if it is below 0.005; else "Background Noise";
\* and the noise level process_audio_chunk hands to it lies in [0, 1].
C23_VoiceStatusLabels ==
    /\ ret.op = "get_voice_activity_status" =>
           ret.status = StatusLabel(args.voice_active, args.noise_level)
    /\ ret.op = "process_audio_data" =>
           /\ 0 <= ret.noise_level
           /\ ret.noise_level <= LevelScale
           /\ ret.voice_status = StatusLabel(ret.voice_active, ret.noise_level)

\* C23 witness: a chunk whose twentyfold mean level is above 1 is answered
\* with noise level 1.0 and, its voice not yet confirmed, "Noisy Environment"
C23_Witness ==
    /\ ret.op = "process_audio_data"
    /\ args.chunk # <<>>
    /\ ~ret.voice_active
    /\ 20 * SumSeq(audio_history) > LevelScale * Len(audio_history)
    /\ ret.noise_level = LevelScale
    /\ ret.voice_status = "Noisy Environment"

\* the face entry is one of the largest area (width x height) of the frame
LargestOf(face, faces) ==
    /\ \E i \in 1..Len(faces) : faces[i] = face
    /\ \A j \in 1..Len(faces) : faces[j].w * faces[j].h <= face.w * face.h

\* C24: when several faces are detected in one frame, the eye, yawn and
\* head-pose measurements returned by
\* AdvancedAttentionDetector.detect_emotion_and_attention and the emotion it
\* records are those of a detected region of the largest area, whatever the
\* order in which the regions were reported.
C24_PrimaryFaceIsLargest ==
    (FrameProcessed /\ args.frame.faces # <<>>) =>
        \E i \in 1..Len(args.frame.faces) :
            LET face == args.frame.faces[i]
                eyes_data == detect_eyes_detailed(face.w, face.eyes)
            IN  /\ LargestOf(face, args.frame.faces)
                /\ ret.data.eye_gaze.left_ear = eyes_data.left_ear
                /\ ret.data.eye_gaze.right_ear = eyes_data.right_ear
                /\ ret.data.eye_gaze.left_open = eyes_data.left_open
                /\ ret.data.yawn_intensity = YawnIntensity(face.h, face.w)
                /\ ret.data.head_pose = HeadPose(face.h, face.w, eyes_data)
                /\ emotion_history[Len(emotion_history)] = face.emotion

\* C25: each frame with a detected face appends exactly one pose sample to
\* head_pose_history, so after n face frames (n the number of emotions
\* recorded, while the emotion window has not evicted) the window holds
\* min(n, 60) samples.
C25_OnePoseSamplePerFaceFrame ==
    Len(emotion_history) < EmotionHistoryLen =>
        Len(head_pose_history) = Min(Len(emotion_history), HeadPoseHistoryLen)

\* the not-attentive statuses the detector can produce
NotAttentiveStatuses ==
    {"Distracted", "Inattentive", "Distracted (Eyes Closed)",
     "Drowsy / Fatigued", "Inattentive (Looking Away)", "Absent / Disengaged"}

\* C26: for every frame processed by process_emotion_data a
\* student_attention_alert is emitted exactly when the face is absent, the
\* attention score is below 30 or the status is one of the not-attentive
\* statuses.
C26_AlertOnEveryNotAttentiveResult ==
    ret.op = "process_emotion_data" =>
        (ret.alert <=> \/ ~ret.data.face_detected
                       \/ ret.data.attention_score < 30
                       \/ ret.data.status \in NotAttentiveStatuses)

\* the server threads that are inside process_audio_chunk
InFlight == {t \in Threads : threads[t].pc # "idle"}

\* every level of the window is above the voice threshold
AllLoud(history) == \A i \in 1..Len(history) : AboveVoice(history[i])

\* C27: calls on the audio processor are serialized: at most one chunk is in
\* flight at any time, and no counter update is lost (once every request has
\* been answered, a window of only above-threshold chunks has been counted
\* chunk by chunk in voice_frames).
C27_CallsSerialized ==
    /\ Cardinality(InFlight) <= 1
    /\ (InFlight = {} /\ AllLoud(audio_history)) =>
           voice_frames = Len(audio_history)

\* C28: a call to detect_emotion_and_attention on a frame with no detected
\* face leaves the EAR, blink, mouth, head-pose and emotion windows unchanged,
\* and with them the blink rate the next face frame starts from.
C28_AbsentFrameKeepsWindows ==
    [][(FrameProcessed' /\ args'.frame.faces = <<>>) =>
           /\ UNCHANGED detectorVars
           /\ calculate_blink_rate(blink_history') =
                  calculate_blink_rate(blink_history)]_vars

\* a frame without a face was processed when the head-pose and emotion
\* windows were full
C28_Witness ==
    /\ FrameProcessed
    /\ args.frame.faces = <<>>
    /\ Len(head_pose_history) = HeadPoseHistoryLen
    /\ Len(emotion_history) = EmotionHistoryLen
    /\ mouth_history # <<>>

\* voice_active was returned True for chunk j of the window h (chunks j - 1
\* and j are above the voice threshold) and fewer than five consecutive
\* below-threshold chunks have occurred among the chunks after j and before n
ActiveSince(h, j, n) ==
    /\ AboveVoice(h[j - 1])
    /\ AboveVoice(h[j])
    /\ \A a \in (j + 1)..(n - SilenceResetFrames) :
           \E i \in a..(a + SilenceResetFrames - 1) : AboveVoice(h[i])

\* C29: voice_active is not latched: once it has been returned True, a
\* below-threshold chunk that is not the fifth consecutive one returns
\* voice_active False and leaves voice_frames unchanged, and an
\* above-threshold chunk returns True at once, without a new two-chunk
\* confirmation.
C29_VoiceActiveNotLatched ==
    [][ LET h == audio_history'
            n == Len(h)
        IN  (n = Len(audio_history) + 1 /\ \E j \in 2..(n - 1) : ActiveSince(h, j, n)) =>
              /\ (~AboveVoice(h[n]) /\ TrailingSilentRun(h) < SilenceResetFrames) =>
                     (~ret'.voice_active /\ voice_frames' = voice_frames)
              /\ AboveVoice(h[n]) => ret'.voice_active
      ]_vars

\* C29 witness: True was returned for the second of two above-threshold
\* chunks, four below-threshold chunks followed, and the next above-threshold
\* chunk was answered True
C29_Witness ==
    LET n == Len(audio_history)
    IN  /\ ChunkProcessed
        /\ ret.voice_active
        /\ n = 7
        /\ AboveVoice(audio_history[1])
        /\ AboveVoice(audio_history[2])
        /\ \A i \in 3..6 : ~AboveVoice(audio_history[i])

\* C30: for 16-bit integer chunks the combined level is monotone in
\* amplitude: multiplying every sample of a chunk by a factor c >= 1 never
\* decreases the combined level, so a chunk with samples in {-1, 0, 1} is
\* never louder than its multiple of a larger peak.
C30_LevelMonotoneInAmplitude ==
    ret.op = "combined_level" => ret.scaled >= ret.level

====
